---- MODULE Spec2Model ----
(***************************************************************************)
(* Model of the PVE provisioning daemon: the VM identifier allocator       *)
(* (VMIdManager, src/src/utils/helpers.ts) and the provisioning pipeline   *)
(* (VMProvisioningService.provisionVM,                                     *)
(* src/src/services/vmProvisioningService.ts).                             *)
(*                                                                         *)
(* The process is a single-threaded event loop: code between two awaits    *)
(* of real I/O runs atomically, so every action below is one such segment, *)
(* started by the completion of the I/O the caller was waiting for.        *)
(***************************************************************************)
EXTENDS Integers, Sequences, FiniteSets

(***************************************************************************)
(* Bounds of the model.                                                    *)
(***************************************************************************)
NumCallers == 2
MaxCalls == 2
MaxRestarts == 1
MaxTicks == 1
MaxEnvSteps == 1

(***************************************************************************)
(* Program constants.                                                      *)
(***************************************************************************)
CACHE_TTL == 30000
RETRY_TTL == 5000
SEED_ID == 1001
maxAttempts == 1000

Callers == 1..NumCallers

\* `number | null`, `Set<number> | null`, NaN: an option is <<>> or <<v>>.
Null == <<>>
Some(v) == <<v>>
Val(o) == o[1]

(***************************************************************************)
(* Text of the counter file: Number.prototype.toString, String.trim and    *)
(* parseInt on sequences of one-character strings.                         *)
(***************************************************************************)
DigitChars == <<"0", "1", "2", "3", "4", "5", "6", "7", "8", "9">>

IsDigit(c) == \E i \in 1..10 : DigitChars[i] = c

DigitVal(c) == (CHOOSE i \in 1..10 : DigitChars[i] = c) - 1

RECURSIVE NatToString(_)
NatToString(n) ==
  IF n < 10 THEN <<DigitChars[n + 1]>>
  ELSE NatToString(n \div 10) \o <<DigitChars[(n % 10) + 1]>>

\* this.nextId!.toString()
toString(n) == IF n < 0 THEN <<"-">> \o NatToString(0 - n) ELSE NatToString(n)

RECURSIVE TrimLeft(_)
TrimLeft(s) ==
  IF s # <<>> /\ Head(s) = " " THEN TrimLeft(Tail(s)) ELSE s

RECURSIVE TrimRight(_)
TrimRight(s) ==
  IF s # <<>> /\ s[Len(s)] = " " THEN TrimRight(SubSeq(s, 1, Len(s) - 1)) ELSE s

\* data.trim()
Trim(s) == TrimRight(TrimLeft(s))

\* value of the longest prefix of digits of s, continuing from acc
RECURSIVE ParseDigits(_, _)
ParseDigits(s, acc) ==
  IF s # <<>> /\ IsDigit(Head(s))
  THEN ParseDigits(Tail(s), acc * 10 + DigitVal(Head(s)))
  ELSE acc

\* parseInt(text): optional sign, then the leading digits; NaN (Null) if none
ParseInt(text) ==
  LET s == TrimLeft(text)
      neg == s # <<>> /\ Head(s) = "-"
      body == IF s # <<>> /\ Head(s) \in {"-", "+"} THEN Tail(s) ELSE s
  IN IF body = <<>> \/ ~IsDigit(Head(body)) THEN Null
     ELSE Some(IF neg THEN 0 - ParseDigits(body, 0) ELSE ParseDigits(body, 0))

\* parseInt(data.trim()) || 1001
LoadCounter(data) ==
  LET n == ParseInt(Trim(data))
  IN IF n = Null \/ Val(n) = 0 THEN SEED_ID ELSE Val(n)

VARIABLES
  nextId,       \* VMIdManager.nextId: Null or Some(n)
  vmCache,      \* VMIdManager.vmCache: Null or Some(set of ids)
  cacheExpiry,  \* VMIdManager.cacheExpiry
  vmIdFile,     \* content of VM_ID_FILE: Null (absent) or Some(text)
  clock,        \* Date.now()
  localVMs,     \* ids with a config under /etc/pve/nodes/<this node>/qemu-server
  remoteVMs,    \* ids of VMs hosted on the other nodes of the cluster
  pc,           \* per caller: the await its getNextVMId / provisionVM is at
  candidateId,  \* per caller: local candidateId
  attempts,     \* per caller: local attempts
  now,          \* per caller: local now of refreshVMCache
  saveText,     \* per caller: the text handed to fs.writeFile
  saveFrom,     \* per caller: who awaits saveVMId ("init" or "accept")
  result,       \* per caller: Null, or Some(id) returned by getNextVMId
  startId,      \* per caller: Null, or Some(nextId read at line 25)
  scanCache,    \* per caller: content of vmCache when line 25 ran
  probedTrue,   \* per caller: candidates quickIdCheck reported as existing
  overlapped,   \* per caller: callers whose call overlapped the current one
  callLog,      \* per caller: the file and command I/O of the getNextVMId
                \* call in progress, in completion order, with its outcome
                \* (empty once the call has returned)
  ncalls,       \* getNextVMId calls made so far
  nrestarts,    \* process restarts so far
  nenv,         \* VM creations and removals by other actors so far
  nticks,       \* advances of the clock so far
  ioFaults,     \* whether the commands and file accesses of VMIdManager can fail
  lastReturned, \* Null, or Some(id last returned) while the counter is V+1
  highWater,    \* Null, or Some(largest value nextId has had)
  config,       \* configManager: the loaded templates.yaml
  opts,         \* per run: the ProvisionOptions of provisionVM
  cmdLog,       \* per run: the commands handed to runCommand, with outcome
  caught,       \* per run: Null, or Some(error caught at line 76)
  err,          \* per run: Null, or Some(error provisionVM rejected with)
  provResult,   \* per run: Null, or Some(ProvisionResult returned)
  statusLog,    \* per run: the DatabaseService.updateVMStatus calls made
  rejections,   \* kinds of the errors provisionVM has rejected with so far
  request,      \* per run: Null, or Some(body of the POST /provision-vm)
  reply,        \* per run: Null, or Some(reply sent for the request)
  records,      \* the VMRecord collection: the records saved so far
  lifeOp        \* per caller: Null, or Some(lifecycle operation in progress)

shared == <<nextId, vmCache, cacheExpiry, vmIdFile>>
world == <<clock, localVMs, remoteVMs>>
locals == <<candidateId, attempts, now, saveText, saveFrom, result, startId,
            scanCache, probedTrue, overlapped, callLog>>
counts == <<ncalls, nrestarts, nenv, nticks>>
history == <<ioFaults, lastReturned, highWater>>
api == <<request, reply, records, lifeOp>>
prov == <<config, opts, cmdLog, caught, err, provResult, statusLog,
          rejections, api>>
vars == <<shared, world, pc, locals, counts, history, prov>>

AllVMs == localVMs \cup remoteVMs

Max(a, b) == IF a >= b THEN a ELSE b

\* the largest value of the in-memory counter so far, once it is n
Raise(n) == IF highWater = Null THEN Some(n) ELSE Some(Max(Val(highWater), n))

\* the awaits of getNextVMId
AllocPcs == {"init_read", "save", "refresh_hit", "tier1", "tier2", "tier3",
             "probe"}

InFlight(p) == pc[p] \in AllocPcs

\* provisionVM has returned its result or has thrown
Finished(p) == pc[p] \in {"done", "failed"}

\* the await of the POST /provision-vm handler after provisionVM
RoutePcs == {"save_record"}

\* the awaits of provisionVM after getNextVMId
PipelinePcs == {"clone", "set_cores_memory", "set_net0", "resize",
                "set_ciuser", "set_cipassword", "set_name", "set_sshkeys",
                "start", "update_status", "stop", "destroy"}

\* the entries of callLog: readFile of line 146, writeFile of line 157, the
\* discovery of tier n (lines 63, 82, 99-104), quickIdCheck of line 31
\* file: the counter file when it was read, Null when there was none
Read(ok, file) == [ev |-> "read", ok |-> ok, file |-> file]

Write(ok) == [ev |-> "write", ok |-> ok]

\* lifetime: Null when the tier failed, Some(cacheExpiry - now) when it
\* succeeded
Tier(n, lifetime) ==
  [ev |-> "tier", n |-> n, ok |-> lifetime # Null, lifetime |-> lifetime]

Probe(vmid, exists) == [ev |-> "probe", vmid |-> vmid, exists |-> exists]

(***************************************************************************)
(* What the environment can answer.                                        *)
(***************************************************************************)
\* quickIdCheck, lines 128-141: true iff the config of vmid is on THIS node;
\* any error (the hostname command failing included) is reported as false.
QuickIdCheckResults(vmid) ==
  {vmid \in localVMs} \cup (IF ioFaults THEN {FALSE} ELSE {})

\* ids added by the loop over `pvesh get /cluster/resources`, lines 68-72
ClusterQueryIds == {v \in AllVMs : v # 0}

\* ids added by the loops over `qm list` and over the *.conf files
LocalListIds == localVMs

\* the loop with `attempts <= maxAttempts`: one candidate too many
ScanStepOneMore(c, a, cache) ==
  LET last == c + (maxAttempts - a)
  IN IF \A j \in c..last : j \in cache
     THEN [pc |-> "thrown", cand |-> last + 1, att |-> maxAttempts + 1]
     ELSE LET k == CHOOSE j \in c..last :
                     j \notin cache /\ \A i \in c..(j - 1) : i \in cache
          IN [pc |-> "probe", cand |-> k, att |-> a + (k - c)]

\* the loop without the cache test of line 30: every candidate is probed
ScanStepIgnoringCache(c, a, cache) ==
  IF a >= maxAttempts
  THEN [pc |-> "thrown", cand |-> c, att |-> a]
  ELSE [pc |-> "probe", cand |-> c, att |-> a]

\* the loop with `attempts++` of line 41 skipped for a cached candidate
ScanStepCountingProbesOnly(c, a, cache) ==
  LET last == c + (maxAttempts - a) - 1
  IN IF \A j \in c..last : j \in cache
     THEN [pc |-> "thrown", cand |-> last + 1, att |-> maxAttempts]
     ELSE LET k == CHOOSE j \in c..last :
                     j \notin cache /\ \A i \in c..(j - 1) : i \in cache
          IN [pc |-> "probe", cand |-> k, att |-> a]

(***************************************************************************)
(* getNextVMId, lines 25-46: the loop run from candidate c with a attempts *)
(* used, up to its next await (the quickIdCheck of a candidate that is not *)
(* in the cache) or to the throw after the loop.                           *)
(***************************************************************************)
ScanStep(c, a, cache) ==
  LET last == c + (maxAttempts - a) - 1
  IN IF \A j \in c..last : j \in cache
     THEN [pc |-> "thrown", cand |-> last + 1, att |-> maxAttempts]
     ELSE LET k == CHOOSE j \in c..last :
                     j \notin cache /\ \A i \in c..(j - 1) : i \in cache
          IN [pc |-> "probe", cand |-> k, att |-> a + (k - c)]

\* lines 25-27 followed by the loop: the scan starts at this.nextId
StartScan(p, cache) ==
  LET s == ScanStep(Val(nextId), 0, cache)
  IN /\ pc' = [pc EXCEPT ![p] = s.pc]
     /\ candidateId' = [candidateId EXCEPT ![p] = s.cand]
     /\ attempts' = [attempts EXCEPT ![p] = s.att]
     /\ startId' = [startId EXCEPT ![p] = Some(Val(nextId))]
     /\ scanCache' = [scanCache EXCEPT ![p] = cache]
     /\ now' = [now EXCEPT ![p] = 0]

\* refreshVMCache, lines 50-57: the part before its first await
RefreshEnter(p) ==
  /\ now' = [now EXCEPT ![p] = clock]
  /\ IF vmCache # Null /\ clock < cacheExpiry
     THEN /\ pc' = [pc EXCEPT ![p] = "refresh_hit"]
          /\ vmCache' = vmCache
     ELSE /\ pc' = [pc EXCEPT ![p] = "tier1"]
          /\ vmCache' = Some({})

(***************************************************************************)
(* getNextVMId, one action per await.                                      *)
(***************************************************************************)
\* lines 18-23: the call, up to the await of readFile or of refreshVMCache
Call(p) ==
  /\ pc[p] \in {"idle", "returned", "thrown", "done", "failed", "replied",
               "life_done", "life_failed"}
  /\ ncalls < MaxCalls
  /\ ncalls' = ncalls + 1
  /\ overlapped' = [q \in Callers |->
                      IF q = p THEN {r \in Callers : InFlight(r)}
                      ELSE IF InFlight(q) THEN overlapped[q] \cup {p}
                      ELSE overlapped[q]]
  /\ candidateId' = [candidateId EXCEPT ![p] = 0]
  /\ attempts' = [attempts EXCEPT ![p] = 0]
  /\ result' = [result EXCEPT ![p] = Null]
  /\ startId' = [startId EXCEPT ![p] = Null]
  /\ scanCache' = [scanCache EXCEPT ![p] = {}]
  /\ probedTrue' = [probedTrue EXCEPT ![p] = {}]
  /\ callLog' = [callLog EXCEPT ![p] = <<>>]
  /\ IF nextId = Null
     THEN /\ pc' = [pc EXCEPT ![p] = "init_read"]
          /\ UNCHANGED <<vmCache, now>>
     ELSE RefreshEnter(p)
  /\ UNCHANGED <<nextId, cacheExpiry, vmIdFile, world, saveText, saveFrom,
                 nrestarts, nenv, nticks, history>>

\* initializeVMId, lines 143-152: readFile has completed
InitReadDone(p) ==
  /\ pc[p] = "init_read"
  /\ \/ /\ vmIdFile # Null
        /\ nextId' = Some(LoadCounter(Val(vmIdFile)))
        /\ highWater' = Raise(LoadCounter(Val(vmIdFile)))
        /\ callLog' = [callLog EXCEPT ![p] = Append(@, Read(TRUE, vmIdFile))]
        /\ RefreshEnter(p)
        /\ UNCHANGED <<saveText, saveFrom>>
     \/ /\ vmIdFile = Null \/ ioFaults
        /\ nextId' = Some(SEED_ID)
        /\ highWater' = Raise(SEED_ID)
        /\ callLog' = [callLog EXCEPT ![p] = Append(@, Read(FALSE, vmIdFile))]
        /\ saveText' = [saveText EXCEPT ![p] = toString(SEED_ID)]
        /\ saveFrom' = [saveFrom EXCEPT ![p] = "init"]
        /\ pc' = [pc EXCEPT ![p] = "save"]
        /\ UNCHANGED <<vmCache, now>>
  /\ UNCHANGED <<cacheExpiry, vmIdFile, world, candidateId, attempts, result,
                 startId, scanCache, probedTrue, overlapped, counts,
                 ioFaults, lastReturned>>

\* saveVMId, lines 154-161: writeFile has completed or failed (swallowed);
\* control returns to initializeVMId (line 150) or to getNextVMId (line 33)
SaveDone(p) ==
  /\ pc[p] = "save"
  /\ \E written \in (IF ioFaults THEN BOOLEAN ELSE {TRUE}) :
       /\ vmIdFile' = IF written THEN Some(saveText[p]) ELSE vmIdFile
       /\ callLog' = [callLog EXCEPT ![p] =
                        IF saveFrom[p] = "init" THEN Append(@, Write(written))
                        ELSE <<>>]
  /\ IF saveFrom[p] = "init"
     THEN /\ RefreshEnter(p)
          /\ UNCHANGED <<result, lastReturned>>
     ELSE /\ pc' = [pc EXCEPT ![p] = "returned"]
          /\ result' = [result EXCEPT ![p] = Some(candidateId[p])]
          /\ lastReturned' = Some(candidateId[p])
          /\ UNCHANGED <<vmCache, now>>
  /\ saveText' = [saveText EXCEPT ![p] = <<>>]
  /\ saveFrom' = [saveFrom EXCEPT ![p] = "init"]
  /\ UNCHANGED <<nextId, cacheExpiry, world, candidateId, attempts, startId,
                 scanCache, probedTrue, overlapped, counts, ioFaults,
                 highWater>>

\* lines 52-54 then 25: the cache was still valid
RefreshHit(p) ==
  /\ pc[p] = "refresh_hit"
  /\ StartScan(p, Val(vmCache))
  /\ UNCHANGED <<shared, world, saveText, saveFrom, result, probedTrue,
                 overlapped, callLog, counts, history>>

\* lines 62-79: the cluster-wide query has completed or failed
Tier1Done(p) ==
  /\ pc[p] = "tier1"
  /\ \/ /\ vmCache' = Some(Val(vmCache) \cup ClusterQueryIds)
        /\ cacheExpiry' = now[p] + CACHE_TTL
        /\ callLog' = [callLog EXCEPT ![p] =
                         Append(@, Tier(1, Some(cacheExpiry' - now[p])))]
        /\ StartScan(p, Val(vmCache'))
     \/ /\ ioFaults
        /\ callLog' = [callLog EXCEPT ![p] = Append(@, Tier(1, Null))]
        /\ pc' = [pc EXCEPT ![p] = "tier2"]
        /\ UNCHANGED <<vmCache, cacheExpiry, candidateId, attempts, startId,
                       scanCache, now>>
  /\ UNCHANGED <<nextId, vmIdFile, world, saveText, saveFrom, result,
                 probedTrue, overlapped, counts, ioFaults, lastReturned,
                 highWater>>

\* lines 81-97: `qm list` has completed or failed
Tier2Done(p) ==
  /\ pc[p] = "tier2"
  /\ \/ /\ vmCache' = Some(Val(vmCache) \cup LocalListIds)
        /\ cacheExpiry' = now[p] + CACHE_TTL
        /\ callLog' = [callLog EXCEPT ![p] =
                         Append(@, Tier(2, Some(cacheExpiry' - now[p])))]
        /\ StartScan(p, Val(vmCache'))
     \/ /\ ioFaults
        /\ callLog' = [callLog EXCEPT ![p] = Append(@, Tier(2, Null))]
        /\ pc' = [pc EXCEPT ![p] = "tier3"]
        /\ UNCHANGED <<vmCache, cacheExpiry, candidateId, attempts, startId,
                       scanCache, now>>
  /\ UNCHANGED <<nextId, vmIdFile, world, saveText, saveFrom, result,
                 probedTrue, overlapped, counts, ioFaults, lastReturned,
                 highWater>>

\* lines 98-120: hostname and readdir have completed, or one of them failed
Tier3Done(p) ==
  /\ pc[p] = "tier3"
  /\ \/ /\ vmCache' = Some(Val(vmCache) \cup LocalListIds)
        /\ cacheExpiry' = now[p] + (CACHE_TTL \div 2)
        /\ callLog' = [callLog EXCEPT ![p] =
                         Append(@, Tier(3, Some(cacheExpiry' - now[p])))]
     \/ /\ ioFaults
        /\ vmCache' = vmCache
        /\ cacheExpiry' = now[p] + RETRY_TTL
        /\ callLog' = [callLog EXCEPT ![p] = Append(@, Tier(3, Null))]
  /\ StartScan(p, Val(vmCache'))
  /\ UNCHANGED <<nextId, vmIdFile, world, saveText, saveFrom, result,
                 probedTrue, overlapped, counts, ioFaults, lastReturned,
                 highWater>>

\* a candidate accepted because the cache does not hold it, whatever
\* quickIdCheck answered
ProbeDoneTrustingCache(p) ==
  /\ pc[p] = "probe"
  /\ \E exists \in QuickIdCheckResults(candidateId[p]) :
       /\ callLog' = [callLog EXCEPT ![p] =
                        Append(@, Probe(candidateId[p], exists))]
       /\ IF ~exists \/ candidateId[p] \notin Val(vmCache)
          THEN /\ nextId' = Some(candidateId[p] + 1)
               /\ highWater' = Raise(candidateId[p] + 1)
               /\ lastReturned' = Null
               /\ saveText' = [saveText EXCEPT ![p] = toString(candidateId[p] + 1)]
               /\ saveFrom' = [saveFrom EXCEPT ![p] = "accept"]
               /\ pc' = [pc EXCEPT ![p] = "save"]
               /\ UNCHANGED <<vmCache, candidateId, attempts, probedTrue>>
          ELSE LET cache == Val(vmCache) \cup {candidateId[p]}
                   s == ScanStep(candidateId[p] + 1, attempts[p] + 1, cache)
               IN /\ vmCache' = Some(cache)
                  /\ probedTrue' = [probedTrue EXCEPT ![p] = @ \cup {candidateId[p]}]
                  /\ pc' = [pc EXCEPT ![p] = s.pc]
                  /\ candidateId' = [candidateId EXCEPT ![p] = s.cand]
                  /\ attempts' = [attempts EXCEPT ![p] = s.att]
                  /\ UNCHANGED <<nextId, saveText, saveFrom, highWater,
                                 lastReturned>>
  /\ UNCHANGED <<cacheExpiry, vmIdFile, world, now, result, startId, scanCache,
                 overlapped, counts, ioFaults>>

\* a scan that moves the counter past every candidate it found in use
ProbeDoneAdvancingCounter(p) ==
  /\ pc[p] = "probe"
  /\ \E exists \in QuickIdCheckResults(candidateId[p]) :
       /\ callLog' = [callLog EXCEPT ![p] =
                        Append(@, Probe(candidateId[p], exists))]
       /\ nextId' = Some(candidateId[p] + 1)
       /\ highWater' = Raise(candidateId[p] + 1)
       /\ IF ~exists
          THEN /\ lastReturned' = Null
               /\ saveText' = [saveText EXCEPT ![p] = toString(candidateId[p] + 1)]
               /\ saveFrom' = [saveFrom EXCEPT ![p] = "accept"]
               /\ pc' = [pc EXCEPT ![p] = "save"]
               /\ UNCHANGED <<vmCache, candidateId, attempts, probedTrue>>
          ELSE LET cache == Val(vmCache) \cup {candidateId[p]}
                   s == ScanStep(candidateId[p] + 1, attempts[p] + 1, cache)
               IN /\ vmCache' = Some(cache)
                  /\ probedTrue' = [probedTrue EXCEPT ![p] = @ \cup {candidateId[p]}]
                  /\ pc' = [pc EXCEPT ![p] = s.pc]
                  /\ candidateId' = [candidateId EXCEPT ![p] = s.cand]
                  /\ attempts' = [attempts EXCEPT ![p] = s.att]
                  /\ UNCHANGED <<saveText, saveFrom, lastReturned>>
  /\ UNCHANGED <<cacheExpiry, vmIdFile, world, now, result, startId, scanCache,
                 overlapped, counts, ioFaults>>

\* lines 31-42: quickIdCheck(candidateId) has answered
ProbeDone(p) ==
  /\ pc[p] = "probe"
  /\ \E exists \in QuickIdCheckResults(candidateId[p]) :
       /\ callLog' = [callLog EXCEPT ![p] =
                        Append(@, Probe(candidateId[p], exists))]
       /\ IF ~exists
          THEN /\ nextId' = Some(candidateId[p] + 1)
               /\ highWater' = Raise(candidateId[p] + 1)
               /\ lastReturned' = Null
               /\ saveText' = [saveText EXCEPT ![p] = toString(candidateId[p] + 1)]
               /\ saveFrom' = [saveFrom EXCEPT ![p] = "accept"]
               /\ pc' = [pc EXCEPT ![p] = "save"]
               /\ UNCHANGED <<vmCache, candidateId, attempts, probedTrue>>
          ELSE LET cache == Val(vmCache) \cup {candidateId[p]}
                   s == ScanStep(candidateId[p] + 1, attempts[p] + 1, cache)
               IN /\ vmCache' = Some(cache)
                  /\ probedTrue' = [probedTrue EXCEPT ![p] = @ \cup {candidateId[p]}]
                  /\ pc' = [pc EXCEPT ![p] = s.pc]
                  /\ candidateId' = [candidateId EXCEPT ![p] = s.cand]
                  /\ attempts' = [attempts EXCEPT ![p] = s.att]
                  /\ UNCHANGED <<nextId, saveText, saveFrom, highWater,
                                 lastReturned>>
  /\ UNCHANGED <<cacheExpiry, vmIdFile, world, now, result, startId, scanCache,
                 overlapped, counts, ioFaults>>

(***************************************************************************)
(* The environment: time, the other actors of the cluster, the process.    *)
(***************************************************************************)
EnvIds == SEED_ID..(SEED_ID + 1)

Tick ==
  /\ \E d \in {RETRY_TTL, CACHE_TTL} :
       /\ nticks < MaxTicks
       /\ nticks' = nticks + 1
       /\ clock' = clock + d
  /\ UNCHANGED <<shared, localVMs, remoteVMs, pc, locals, ncalls, nrestarts,
                 nenv, history, prov>>

\* another process or host creates a VM, on this node or on another one
EnvCreate ==
  /\ nenv < MaxEnvSteps
  /\ nenv' = nenv + 1
  /\ \E v \in EnvIds \ AllVMs :
       \/ localVMs' = localVMs \cup {v} /\ UNCHANGED remoteVMs
       \/ remoteVMs' = remoteVMs \cup {v} /\ UNCHANGED localVMs
  /\ UNCHANGED <<shared, clock, pc, locals, ncalls, nrestarts, nticks, history,
                 prov>>

\* a VM is destroyed
EnvDestroy ==
  /\ nenv < MaxEnvSteps
  /\ nenv' = nenv + 1
  /\ \E v \in EnvIds \cap AllVMs :
       /\ localVMs' = localVMs \ {v}
       /\ remoteVMs' = remoteVMs \ {v}
  /\ UNCHANGED <<shared, clock, pc, locals, ncalls, nrestarts, nticks, history,
                 prov>>

IdleLocals ==
  /\ pc' = [p \in Callers |-> "idle"]
  /\ candidateId' = [p \in Callers |-> 0]
  /\ attempts' = [p \in Callers |-> 0]
  /\ now' = [p \in Callers |-> 0]
  /\ saveText' = [p \in Callers |-> <<>>]
  /\ saveFrom' = [p \in Callers |-> "init"]
  /\ result' = [p \in Callers |-> Null]
  /\ startId' = [p \in Callers |-> Null]
  /\ scanCache' = [p \in Callers |-> {}]
  /\ probedTrue' = [p \in Callers |-> {}]
  /\ callLog' = [p \in Callers |-> <<>>]

\* the process is restarted: the static fields of lines 13-15 are fresh and
\* every call in flight is gone; the counter file stays
Restart ==
  /\ nrestarts < MaxRestarts
  /\ nrestarts' = nrestarts + 1
  /\ nextId' = Null
  /\ vmCache' = Null
  /\ cacheExpiry' = 0
  /\ IdleLocals
  /\ overlapped' = [p \in Callers |-> {}]
  /\ UNCHANGED <<vmIdFile, world, ncalls, nenv, nticks, history, prov>>

\* the process has just started: the static fields of lines 13-15
InitProcess ==
  /\ nextId = Null
  /\ vmCache = Null
  /\ cacheExpiry = 0
  /\ clock = 0
  /\ pc = [p \in Callers |-> "idle"]
  /\ candidateId = [p \in Callers |-> 0]
  /\ attempts = [p \in Callers |-> 0]
  /\ now = [p \in Callers |-> 0]
  /\ saveText = [p \in Callers |-> <<>>]
  /\ saveFrom = [p \in Callers |-> "init"]
  /\ result = [p \in Callers |-> Null]
  /\ startId = [p \in Callers |-> Null]
  /\ scanCache = [p \in Callers |-> {}]
  /\ probedTrue = [p \in Callers |-> {}]
  /\ callLog = [p \in Callers |-> <<>>]
  /\ overlapped = [p \in Callers |-> {}]
  /\ ncalls = 0
  /\ nrestarts = 0
  /\ nenv = 0
  /\ nticks = 0
  /\ lastReturned = Null
  /\ highWater = Null
  /\ opts = [p \in Callers |-> Null]
  /\ cmdLog = [p \in Callers |-> <<>>]
  /\ caught = [p \in Callers |-> Null]
  /\ err = [p \in Callers |-> Null]
  /\ provResult = [p \in Callers |-> Null]
  /\ statusLog = [p \in Callers |-> <<>>]
  /\ rejections = {}
  /\ request = [p \in Callers |-> Null]
  /\ reply = [p \in Callers |-> Null]
  /\ records = {}
  /\ lifeOp = [p \in Callers |-> Null]

\* counter files found at start: none, or one written by an earlier run
InitFiles == {Null, Some(toString(SEED_ID))}

\* config/templates.yaml as in the README: one template, defaults
Templates ==
  [debian12 |-> [id |-> 9000, name |-> "Debian 12", default_user |-> "vmuser",
                 network |-> Null]]

\* defaults.network of templates.yaml
DefaultNetwork ==
  [bridge |-> "vmbr0", model |-> "virtio", vlan |-> 1, speed |-> "125"]

Defaults(d) ==
  [cores |-> 2, memory |-> 2048, disk_size |-> d, storage |-> "pve-a",
   network |-> DefaultNetwork]

Configs ==
  { [templates |-> Templates, defaults |-> Defaults(d)] :
      d \in {"10G", "20G"} }

\* the optional network section of a template (Partial<NetworkConfig>):
\* absent, present without a vlan, present with a vlan
TemplateNetworks ==
  { Null,
    Some([bridge |-> Some("vmbr1"), model |-> Null, vlan |-> Null,
          speed |-> Null]),
    Some([bridge |-> Null, model |-> Null, vlan |-> Some(50),
          speed |-> Some("1000")]) }

\* templates.yaml with each of these network sections on the template
NetConfigs ==
  { [templates |-> [debian12 |-> [Templates.debian12 EXCEPT !.network = n]],
     defaults |-> Defaults("10G")] : n \in TemplateNetworks }

Init ==
  /\ InitProcess
  /\ config \in {c \in Configs : c.defaults.disk_size = "10G"}
  /\ vmIdFile \in InitFiles
  /\ localVMs \in {{}, {SEED_ID}}
  /\ remoteVMs = {SEED_ID + 1}
  /\ ioFaults = TRUE

\* the awaits inside getNextVMId
AllocateStep(p) ==
  \/ InitReadDone(p)
  \/ SaveDone(p)
  \/ RefreshHit(p)
  \/ Tier1Done(p)
  \/ Tier2Done(p)
  \/ Tier3Done(p)
  \/ ProbeDone(p)

\* getNextVMId called on its own
Allocate(p) ==
  /\ Call(p) \/ AllocateStep(p)
  /\ UNCHANGED prov

Next ==
  \/ \E p \in Callers : Allocate(p)
  \/ Tick
  \/ EnvCreate
  \/ EnvDestroy
  \/ Restart

Spec == Init /\ [][Next]_vars

(***************************************************************************)
(* One caller whose calls never overlap.                                   *)
(***************************************************************************)
SeqCallers == {1}

Window == SEED_ID..(SEED_ID + maxAttempts - 1)

SeqFiles == InitFiles \cup {Some(<<" ">> \o toString(SEED_ID + 1) \o <<" ">>)}

SeqClusters ==
  { [local |-> {}, remote |-> {SEED_ID + 1}],
    [local |-> SEED_ID..(SEED_ID + 4), remote |-> {}] }

InitSeq ==
  /\ InitProcess
  /\ config \in {c \in Configs : c.defaults.disk_size = "10G"}
  /\ vmIdFile \in SeqFiles
  /\ \E c \in SeqClusters :
       /\ localVMs = c.local
       /\ remoteVMs = c.remote
  /\ ioFaults = TRUE

\* no call is between its first and its last step
Quiescent == \A p \in Callers : ~InFlight(p)

\* time passes and the process restarts between the calls; the cluster
\* changes at any moment
NextSeq ==
  \/ \E p \in SeqCallers : Allocate(p)
  \/ Quiescent /\ Tick
  \/ EnvCreate
  \/ EnvDestroy
  \/ Quiescent /\ Restart

SpecSeq == InitSeq /\ [][NextSeq]_vars

(***************************************************************************)
(* One caller on a cluster where a whole window of maxAttempts identifiers *)
(* but the first is in use on the other nodes.                             *)
(***************************************************************************)
InitWin ==
  /\ InitProcess
  /\ config \in {c \in Configs : c.defaults.disk_size = "10G"}
  /\ vmIdFile \in SeqFiles
  /\ localVMs = {}
  /\ remoteVMs = Window \ {SEED_ID}
  /\ ioFaults = TRUE

NextWin ==
  \/ \E p \in SeqCallers : Allocate(p)
  \/ EnvCreate
  \/ EnvDestroy

SpecWin == InitWin /\ [][NextWin]_vars

(***************************************************************************)
(* One caller, with the counter file absent, empty, not a number, zero,    *)
(* negative or as saveVMId wrote it.                                       *)
(***************************************************************************)
CounterFiles ==
  { Null, Some(<<>>), Some(<<"a", "b", "c">>), Some(<<"0">>),
    Some(<<"-", "5">>), Some(toString(SEED_ID)) }

InitFile ==
  /\ InitProcess
  /\ config \in {c \in Configs : c.defaults.disk_size = "10G"}
  /\ vmIdFile \in CounterFiles
  /\ localVMs \in {{}, {SEED_ID}}
  /\ remoteVMs = {SEED_ID + 1}
  /\ ioFaults = TRUE

NextFile ==
  \/ \E p \in SeqCallers : Allocate(p)
  \/ Quiescent /\ Restart

SpecFile == InitFile /\ [][NextFile]_vars

(***************************************************************************)
(* Properties of the allocator.                                            *)
(***************************************************************************)
\* the candidates the current call of p found in use: in the cache when the
\* scan started, or reported as existing by quickIdCheck
InUse(p) == scanCache[p] \cup probedTrue[p]

\* C1: the identifiers returned by getNextVMId calls whose executions
\* overlapped are pairwise distinct.
C1_OverlappingCallsDistinct ==
  \A p \in Callers : \A q \in Callers :
    (/\ p # q
     /\ pc[p] = "returned" /\ pc[q] = "returned"
     /\ q \in overlapped[p] /\ p \in overlapped[q])
    => result[p] # result[q]

\* C2: at most one getNextVMId execution is in flight at any time.
C2_OneAllocationInFlight ==
  Cardinality({p \in Callers : InFlight(p)}) <= 1

\* C3: at the moment getNextVMId returns an identifier, no VM of the cluster,
\* on this node or on another one, has that identifier.
C3_ReturnedIdClusterUnique ==
  [][\A p \in Callers :
       (pc[p] # "returned" /\ pc'[p] = "returned")
       => Val(result'[p]) \notin (localVMs' \cup remoteVMs')]_vars

\* C4: a call that does not overlap another one and starts with counter c
\* returns the smallest k >= c that is neither in the cache nor reported as
\* existing by the probe; with 1001..1005 in use and c = 1001 it returns 1006.
C4_ReturnsSmallestFree ==
  \A p \in Callers :
    (pc[p] = "returned" /\ overlapped[p] = {}) =>
      LET c == Val(startId[p])
          k == Val(result[p])
      IN /\ k >= c
         /\ k \notin InUse(p)
         /\ \A j \in c..(k - 1) : j \in InUse(p)
         /\ (c = 1001 /\ (1001..1005) \subseteq InUse(p)) => k = 1006

C4_Witness ==
  \E p \in SeqCallers :
    /\ pc[p] = "returned"
    /\ startId[p] = Some(1001)
    /\ (1001..1005) \subseteq InUse(p)
    /\ probedTrue[p] # {}
    /\ result[p] = Some(1006)

\* C5: when each of the 1000 candidates c..c+999 is in the cache or reported
\* as existing, the call throws instead of returning, and no candidate
\* beyond c+999 is probed or returned.
C5_ExhaustedWindowThrows ==
  \A p \in Callers :
    startId[p] # Null =>
      LET c == Val(startId[p])
          full == \A j \in c..(c + 999) : j \in InUse(p)
      IN /\ (pc[p] = "thrown") <=> full
         /\ pc[p] = "probe" => candidateId[p] <= c + 999
         /\ pc[p] = "returned" => Val(result[p]) <= c + 999
         /\ full => result[p] = Null

C5_Witness ==
  \E p \in SeqCallers :
    /\ pc[p] = "thrown"
    /\ probedTrue[p] # {}
    /\ \A j \in Val(startId[p])..(Val(startId[p]) + 999) : j \in InUse(p)

\* C6: once a call has returned V, a fresh process that loads the counter
\* from the file obtains V+1.
C6_FreshProcessLoadsNext ==
  [][\A p \in Callers :
       (/\ pc[p] = "init_read" /\ pc'[p] # "init_read"
        /\ nrestarts > 0 /\ lastReturned # Null)
       => nextId' = Some(Val(lastReturned) + 1)]_vars

\* C7: neither the in-memory counter nor the counter in the file ever
\* decreases, across overlapping calls and restarts.
C7_CounterNeverDecreases ==
  [][/\ (nextId' # Null /\ highWater # Null)
          => Val(nextId') >= Val(highWater)
     /\ (vmIdFile # Null /\ vmIdFile' # Null)
          => LoadCounter(Val(vmIdFile')) >= LoadCounter(Val(vmIdFile))]_vars

(***************************************************************************)
(* VMProvisioningService.provisionVM.  A run is a caller: it awaits        *)
(* getNextVMId, then one runCommand after the other.                       *)
(***************************************************************************)
\* String.prototype.toLowerCase on the OS keys of the model
toLowerCase(os) == IF os = "Debian12" THEN "debian12" ELSE os

\* ConfigManager.getTemplate, lines 117-126: Null stands for the throw
getTemplate(osName) ==
  IF toLowerCase(osName) \in DOMAIN config.templates
  THEN Some(config.templates[toLowerCase(osName)])
  ELSE Null

\* the letters of String.prototype.toLowerCase on a name
UpperChars == <<"A", "B", "C", "D", "E", "F", "G", "H", "I", "J", "K", "L", "M",
                "N", "O", "P", "Q", "R", "S", "T", "U", "V", "W", "X", "Y", "Z">>

LowerChars == <<"a", "b", "c", "d", "e", "f", "g", "h", "i", "j", "k", "l", "m",
                "n", "o", "p", "q", "r", "s", "t", "u", "v", "w", "x", "y", "z">>

IsUpper(c) == \E i \in 1..Len(UpperChars) : UpperChars[i] = c

IsLower(c) == \E i \in 1..Len(LowerChars) : LowerChars[i] = c

toLowerChar(c) ==
  IF IsUpper(c)
  THEN LowerChars[CHOOSE i \in 1..Len(UpperChars) : UpperChars[i] = c]
  ELSE c

\* the class [a-zA-Z0-9-_] of sanitizeVMName and of the name's schema
IsNameChar(c) == IsUpper(c) \/ IsLower(c) \/ IsDigit(c) \/ c \in {"-", "_"}

\* sanitizeVMName, lines 244-246, on a sequence of characters
sanitizeVMName(name) ==
  [i \in 1..Len(name) |->
     toLowerChar(IF IsNameChar(name[i]) THEN name[i] ELSE "-")]

\* ConfigManager.getNetworkConfig, lines 128-147, for an OS key getTemplate
\* knows: each field of the template's network section, else the default's
getNetworkConfigVlanFromDefaults(osName) ==
  LET defaults == config.defaults.network
      template == Val(getTemplate(osName))
  IN IF template.network # Null
     THEN LET n == Val(template.network)
          IN [bridge |-> IF n.bridge # Null THEN Val(n.bridge)
                         ELSE defaults.bridge,
              model |-> IF n.model # Null THEN Val(n.model)
                        ELSE defaults.model,
              vlan |-> defaults.vlan,
              speed |-> IF n.speed # Null THEN Val(n.speed)
                        ELSE defaults.speed]
     ELSE defaults

getNetworkConfig(osName) ==
  LET defaults == config.defaults.network
      template == Val(getTemplate(osName))
  IN IF template.network # Null
     THEN LET n == Val(template.network)
          IN [bridge |-> IF n.bridge # Null THEN Val(n.bridge)
                         ELSE defaults.bridge,
              model |-> IF n.model # Null THEN Val(n.model)
                        ELSE defaults.model,
              vlan |-> IF n.vlan # Null THEN Val(n.vlan) ELSE defaults.vlan,
              speed |-> IF n.speed # Null THEN Val(n.speed)
                        ELSE defaults.speed]
     ELSE defaults

\* provisionVM, lines 15-25
finalNetworkConfig(o) ==
  LET networkConfig == getNetworkConfig(o.os)
  IN [bridge |-> networkConfig.bridge,
      model |-> networkConfig.model,
      vlan |-> IF o.network # Null /\ Val(o.network).vlan # Null
               THEN Val(Val(o.network).vlan)
               ELSE networkConfig.vlan,
      speed |-> IF o.network # Null /\ Val(o.network).speed # Null
                THEN Val(Val(o.network).speed)
                ELSE networkConfig.speed]

\* provisionVM, lines 12-13 and 27-35, for an OS key getTemplate knows
finalConfig(o) ==
  LET template == Val(getTemplate(o.os))
      defaults == config.defaults
  IN [os |-> o.os,
      hostname |-> o.hostname,
      password |-> o.password,
      sshKey |-> o.sshKey,
      name |-> sanitizeVMName(o.name),
      cores |-> IF o.cores # Null THEN Val(o.cores) ELSE defaults.cores,
      memory |-> IF o.memory # Null THEN Val(o.memory) ELSE defaults.memory,
      username |-> IF o.username # Null THEN Val(o.username)
                   ELSE template.default_user,
      diskSize |-> IF o.diskSize # Null THEN Val(o.diskSize)
                   ELSE defaults.disk_size,
      network |-> finalNetworkConfig(o)]

\* the rollback commands without their `|| true`
ShellExitWithoutOrTrue(ok, orTrue) == IF ok THEN 0 ELSE 1

\* exit status of the shell that exec runs: `cmd` or `cmd || true`
ShellExit(ok, orTrue) == IF ok \/ orTrue THEN 0 ELSE 1

\* ShellExecutor.runCommand, lines 18-23: the promise is rejected on err
Rejects(ok, orTrue) == ShellExit(ok, orTrue) # 0

\* the Error runCommand rejects with names the command
CommandError(op) == [kind |-> "CommandError", op |-> op]

\* what qm can answer: a clone needs a free vmid, every other command a VM
\* with that vmid on this node; any command can fail
CmdOutcomes(op, vmid) ==
  IF op = "clone"
  THEN (IF vmid \in AllVMs THEN {FALSE} ELSE {TRUE, FALSE})
  ELSE (IF vmid \in localVMs THEN {TRUE, FALSE} ELSE {FALSE})

\* the VMs of this node after the command
LocalAfter(op, vmid, ok) ==
  IF ~ok THEN localVMs
  ELSE IF op = "clone" THEN localVMs \cup {vmid}
  ELSE IF op = "destroy" THEN localVMs \ {vmid}
  ELSE localVMs

\* the vmid of run p (line 11)
VmidOf(p) == Val(result[p])

\* the log of p once its last command got its outcome
Settled(p, ok) ==
  [cmdLog[p] EXCEPT ![Len(cmdLog[p])].st = IF ok THEN "ok" ELSE "failed"]

\* a --net0 that tags every VLAN but 0
netConfigTaggingOne(network) ==
  [model |-> network.model,
   bridge |-> network.bridge,
   tag |-> IF network.vlan # 0 THEN Some(network.vlan) ELSE Null,
   rate |-> IF network.speed # "" /\ network.speed # "1000"
            THEN Some(network.speed)
            ELSE Null]

\* configureVM, lines 120-128: the value of --net0
netConfig(network) ==
  [model |-> network.model,
   bridge |-> network.bridge,
   tag |-> IF network.vlan # 0 /\ network.vlan # 1 THEN Some(network.vlan)
           ELSE Null,
   rate |-> IF network.speed # "" /\ network.speed # "1000"
            THEN Some(network.speed)
            ELSE Null]

\* the arguments of the command line of op, from the template and finalConfig
\* (lines 101, 116, 131, 135, 151, 154, 157, 161, 182)
CommandArgs(op, o) ==
  LET cfg == finalConfig(o)
  IN CASE op = "clone" ->
            [templateId |-> Val(getTemplate(o.os)).id, name |-> cfg.name]
       [] op = "set_cores_memory" ->
            [cores |-> cfg.cores, memory |-> cfg.memory]
       [] op = "set_net0" -> [net0 |-> netConfig(cfg.network)]
       [] op = "resize" -> [scsi0 |-> cfg.diskSize]
       [] op = "set_ciuser" -> [ciuser |-> cfg.username]
       [] op = "set_cipassword" -> [cipassword |-> cfg.password]
       [] op = "set_name" -> [hostname |-> cfg.hostname]
       [] op = "set_sshkeys" -> [sshkeys |-> Val(cfg.sshKey)]
       [] op = "start" -> [flags |-> {}]

\* lines 81-82: the rollback commands carry --skiplock
RollbackArgs == [flags |-> {"skiplock"}]

\* a command handed to runCommand, not yet completed
Entry(op, vmid, args) ==
  [op |-> op, vmid |-> vmid, args |-> args, st |-> "pending"]

\* setupCloudInit setting the password before the user
NextCommandPasswordFirst(op, cfg) ==
  CASE op = "clone" -> "set_cores_memory"
    [] op = "set_cores_memory" -> "set_net0"
    [] op = "set_net0" ->
         IF cfg.diskSize # "" /\ cfg.diskSize # "20G" THEN "resize"
         ELSE "set_cipassword"
    [] op = "resize" -> "set_cipassword"
    [] op = "set_cipassword" -> "set_ciuser"
    [] op = "set_ciuser" -> "set_name"
    [] op = "set_name" -> IF cfg.sshKey # Null THEN "set_sshkeys" ELSE "start"
    [] op = "set_sshkeys" -> "start"

\* configureVM comparing the disk size with defaults.disk_size of
\* templates.yaml
NextCommandComparingDefault(op, cfg) ==
  CASE op = "clone" -> "set_cores_memory"
    [] op = "set_cores_memory" -> "set_net0"
    [] op = "set_net0" ->
         IF cfg.diskSize # "" /\ cfg.diskSize # config.defaults.disk_size
         THEN "resize"
         ELSE "set_ciuser"
    [] op = "resize" -> "set_ciuser"
    [] op = "set_ciuser" -> "set_cipassword"
    [] op = "set_cipassword" -> "set_name"
    [] op = "set_name" -> IF cfg.sshKey # Null THEN "set_sshkeys" ELSE "start"
    [] op = "set_sshkeys" -> "start"

\* configureVM and setupCloudInit: the command after op, "start" after the last
NextCommand(op, cfg) ==
  CASE op = "clone" -> "set_cores_memory"
    [] op = "set_cores_memory" -> "set_net0"
    [] op = "set_net0" ->
         IF cfg.diskSize # "" /\ cfg.diskSize # "20G" THEN "resize"
         ELSE "set_ciuser"
    [] op = "resize" -> "set_ciuser"
    [] op = "set_ciuser" -> "set_cipassword"
    [] op = "set_cipassword" -> "set_name"
    [] op = "set_name" -> IF cfg.sshKey # Null THEN "set_sshkeys" ELSE "start"
    [] op = "set_sshkeys" -> "start"

\* a rejected runCommand that does not leave the try block
PipelineDoneIgnoringFailure(p, op) ==
  /\ pc[p] = op
  /\ \E ok \in CmdOutcomes(op, VmidOf(p)) :
       /\ localVMs' = LocalAfter(op, VmidOf(p), ok)
       /\ LET next == NextCommand(op, finalConfig(Val(opts[p])))
          IN /\ cmdLog' = [cmdLog EXCEPT ![p] =
                             Append(Settled(p, ok),
                                    Entry(next, VmidOf(p),
                                          CommandArgs(next, Val(opts[p]))))]
             /\ pc' = [pc EXCEPT ![p] = next]
             /\ UNCHANGED caught
  /\ UNCHANGED <<shared, clock, remoteVMs, locals, counts, history, config,
                 opts, err, provResult, statusLog, rejections, api>>

\* a rejected runCommand that is issued a second time before giving up
PipelineDoneRetrying(p, op) ==
  /\ pc[p] = op
  /\ \E ok \in CmdOutcomes(op, VmidOf(p)) :
       /\ localVMs' = LocalAfter(op, VmidOf(p), ok)
       /\ IF Rejects(ok, FALSE)
          THEN IF Cardinality({i \in 1..Len(cmdLog[p]) :
                                cmdLog[p][i].op = op}) < 2
               THEN /\ cmdLog' = [cmdLog EXCEPT ![p] =
                                    Append(Settled(p, ok),
                                           Entry(op, VmidOf(p),
                                                 CommandArgs(op, Val(opts[p]))))]
                    /\ UNCHANGED <<pc, caught>>
               ELSE /\ caught' = [caught EXCEPT ![p] = Some(CommandError(op))]
                    /\ cmdLog' = [cmdLog EXCEPT ![p] =
                                    Append(Settled(p, ok),
                                           Entry("stop", VmidOf(p),
                                                 RollbackArgs))]
                    /\ pc' = [pc EXCEPT ![p] = "stop"]
          ELSE LET next == NextCommand(op, finalConfig(Val(opts[p])))
               IN /\ cmdLog' = [cmdLog EXCEPT ![p] =
                                  Append(Settled(p, ok),
                                         Entry(next, VmidOf(p),
                                               CommandArgs(next, Val(opts[p]))))]
                  /\ pc' = [pc EXCEPT ![p] = next]
                  /\ UNCHANGED caught
  /\ UNCHANGED <<shared, clock, remoteVMs, locals, counts, history, config,
                 opts, err, provResult, statusLog, rejections, api>>

\* a runCommand of lines 48-51 has completed: the next command is issued, or
\* the rejection is caught at line 76 and `qm stop ... || true` is issued
PipelineDone(p, op) ==
  /\ pc[p] = op
  /\ \E ok \in CmdOutcomes(op, VmidOf(p)) :
       /\ localVMs' = LocalAfter(op, VmidOf(p), ok)
       /\ IF Rejects(ok, FALSE)
          THEN /\ caught' = [caught EXCEPT ![p] = Some(CommandError(op))]
               /\ cmdLog' = [cmdLog EXCEPT ![p] =
                               Append(Settled(p, ok),
                                      Entry("stop", VmidOf(p), RollbackArgs))]
               /\ pc' = [pc EXCEPT ![p] = "stop"]
          ELSE LET next == NextCommand(op, finalConfig(Val(opts[p])))
               IN /\ cmdLog' = [cmdLog EXCEPT ![p] =
                                  Append(Settled(p, ok),
                                         Entry(next, VmidOf(p),
                                               CommandArgs(next, Val(opts[p]))))]
                  /\ pc' = [pc EXCEPT ![p] = next]
                  /\ UNCHANGED caught
  /\ UNCHANGED <<shared, clock, remoteVMs, locals, counts, history, config,
                 opts, err, provResult, statusLog, rejections, api>>

\* requests: a known OS key without and with the optional fields, an unknown one
BareOptions ==
  [subscriptionId |-> "sub-1", os |-> "debian12",
   name |-> <<"W", "e", "b", "_", "1">>, hostname |-> "web1.example.org",
   password |-> <<"c", "o", "r", "r", "e", "c", "t", "1">>,
   cores |-> Null, memory |-> Null, username |-> Null, sshKey |-> Null,
   diskSize |-> Null, network |-> Null]

ProvisionInputs ==
  { [BareOptions EXCEPT !.os = "Debian12", !.diskSize = Some("20G"),
                        !.network = Some([vlan |-> Null, speed |-> Null])],
    [BareOptions EXCEPT !.sshKey = Some("ssh-ed25519 AAAA"),
                        !.cores = Some(4), !.memory = Some(4096),
                        !.username = Some("admin"),
                        !.network = Some([vlan |-> Some(100),
                                          speed |-> Some("1000")])],
    [BareOptions EXCEPT !.os = "centos"] }

\* a new run in slot p: nothing issued, caught, raised or returned yet
FreshRun(p) ==
  /\ cmdLog' = [cmdLog EXCEPT ![p] = <<>>]
  /\ caught' = [caught EXCEPT ![p] = Null]
  /\ err' = [err EXCEPT ![p] = Null]
  /\ provResult' = [provResult EXCEPT ![p] = Null]
  /\ statusLog' = [statusLog EXCEPT ![p] = <<>>]

\* provisionVM, lines 8-11: the call, up to the first await of getNextVMId
Provision(p) ==
  /\ \/ pc[p] \in {"idle", "replied", "life_done", "life_failed"}
     \/ Finished(p) /\ request[p] = Null
  /\ \E o \in ProvisionInputs : opts' = [opts EXCEPT ![p] = Some(o)]
  /\ FreshRun(p)
  /\ request' = [request EXCEPT ![p] = Null]
  /\ reply' = [reply EXCEPT ![p] = Null]
  /\ Call(p)
  /\ UNCHANGED <<config, rejections, records, lifeOp>>

\* line 11: getNextVMId has thrown; provisionVM rejects with its error
AllocationFailed(p) ==
  /\ pc[p] = "thrown"
  /\ opts[p] # Null
  /\ pc' = [pc EXCEPT ![p] = "failed"]
  /\ err' = [err EXCEPT ![p] = Some([kind |-> "AllocationExhausted"])]
  /\ rejections' = rejections \cup {"AllocationExhausted"}
  /\ UNCHANGED <<shared, world, locals, counts, history, config, opts, cmdLog,
                 caught, provResult, statusLog, api>>

\* getTemplate called inside the try of line 37: its throw starts a rollback
ResolveInsideTry(p) ==
  /\ pc[p] = "returned"
  /\ opts[p] # Null
  /\ IF getTemplate(Val(opts[p]).os) = Null
     THEN /\ pc' = [pc EXCEPT ![p] = "stop"]
          /\ caught' = [caught EXCEPT ![p] = Some([kind |-> "TemplateNotFound"])]
          /\ cmdLog' = [cmdLog EXCEPT ![p] =
                          <<Entry("stop", VmidOf(p), RollbackArgs)>>]
     ELSE /\ pc' = [pc EXCEPT ![p] = "clone"]
          /\ cmdLog' = [cmdLog EXCEPT ![p] =
                          <<Entry("clone", VmidOf(p),
                                  CommandArgs("clone", Val(opts[p])))>>]
          /\ UNCHANGED caught
  /\ UNCHANGED <<shared, world, locals, counts, history, config, opts, err,
                 provResult, statusLog, rejections, api>>

\* lines 11-48: getNextVMId has returned; the template is resolved (a throw
\* of getTemplate leaves provisionVM) and `qm clone` is issued
Resolve(p) ==
  /\ pc[p] = "returned"
  /\ opts[p] # Null
  /\ IF getTemplate(Val(opts[p]).os) = Null
     THEN /\ pc' = [pc EXCEPT ![p] = "failed"]
          /\ err' = [err EXCEPT ![p] = Some([kind |-> "TemplateNotFound"])]
          /\ rejections' = rejections \cup {"TemplateNotFound"}
          /\ UNCHANGED cmdLog
     ELSE /\ pc' = [pc EXCEPT ![p] = "clone"]
          /\ cmdLog' = [cmdLog EXCEPT ![p] =
                          <<Entry("clone", VmidOf(p),
                                  CommandArgs("clone", Val(opts[p])))>>]
          /\ UNCHANGED <<err, rejections>>
  /\ UNCHANGED <<shared, world, locals, counts, history, config, opts, caught,
                 provResult, statusLog, api>>

\* cloneTemplate, lines 95-103
CloneDone(p) == PipelineDone(p, "clone")

\* configureVM, lines 108-139
ConfigureDone(p) ==
  \E op \in {"set_cores_memory", "set_net0", "resize"} : PipelineDone(p, op)

\* setupCloudInit, lines 144-175
CloudInitDone(p) ==
  \E op \in {"set_ciuser", "set_cipassword", "set_name", "set_sshkeys"} :
    PipelineDone(p, op)

\* a startVM that records the status "error" when `qm start` has failed
StartDoneRecordingFailure(p) ==
  /\ pc[p] = "start"
  /\ \E ok \in CmdOutcomes("start", VmidOf(p)) :
       IF Rejects(ok, FALSE)
       THEN /\ caught' = [caught EXCEPT ![p] = Some(CommandError("start"))]
            /\ cmdLog' = [cmdLog EXCEPT ![p] =
                            Append(Settled(p, ok),
                                   Entry("stop", VmidOf(p), RollbackArgs))]
            /\ pc' = [pc EXCEPT ![p] = "stop"]
            /\ statusLog' = [statusLog EXCEPT ![p] =
                               Append(@, [vmid |-> VmidOf(p),
                                          status |-> "error",
                                          st |-> "ok"])]
       ELSE /\ cmdLog' = [cmdLog EXCEPT ![p] = Settled(p, ok)]
            /\ statusLog' = [statusLog EXCEPT ![p] =
                               Append(@, [vmid |-> VmidOf(p),
                                          status |-> "running",
                                          st |-> "pending"])]
            /\ pc' = [pc EXCEPT ![p] = "update_status"]
            /\ UNCHANGED caught
  /\ UNCHANGED <<shared, world, locals, counts, history, config, opts, err,
                 provResult, rejections, api>>

\* startVM, lines 180-187: `qm start` has completed; on success the status
\* update is awaited, on failure the rollback starts
StartDone(p) ==
  /\ pc[p] = "start"
  /\ \E ok \in CmdOutcomes("start", VmidOf(p)) :
       IF Rejects(ok, FALSE)
       THEN /\ caught' = [caught EXCEPT ![p] = Some(CommandError("start"))]
            /\ cmdLog' = [cmdLog EXCEPT ![p] =
                            Append(Settled(p, ok),
                                   Entry("stop", VmidOf(p), RollbackArgs))]
            /\ pc' = [pc EXCEPT ![p] = "stop"]
            /\ UNCHANGED statusLog
       ELSE /\ cmdLog' = [cmdLog EXCEPT ![p] = Settled(p, ok)]
            /\ statusLog' = [statusLog EXCEPT ![p] =
                               Append(@, [vmid |-> VmidOf(p),
                                          status |-> "running",
                                          st |-> "pending"])]
            /\ pc' = [pc EXCEPT ![p] = "update_status"]
            /\ UNCHANGED caught
  /\ UNCHANGED <<shared, world, locals, counts, history, config, opts, err,
                 provResult, rejections, api>>

\* a result that echoes the name of the request
ProvisionResultEchoingRequest(vmid, o) ==
  LET cfg == finalConfig(o)
  IN [vmid |-> vmid,
      status |-> "running",
      config |-> [os |-> o.os,
                  name |-> o.name,
                  cores |-> cfg.cores,
                  memory |-> cfg.memory,
                  hostname |-> cfg.hostname,
                  username |-> cfg.username,
                  network |-> [bridge |-> cfg.network.bridge,
                               vlan |-> cfg.network.vlan,
                               speed |-> cfg.network.speed]]]

\* provisionVM, lines 53-70: the result echoes opts.os and finalConfig
ProvisionResult(vmid, o) ==
  LET cfg == finalConfig(o)
  IN [vmid |-> vmid,
      status |-> "running",
      config |-> [os |-> o.os,
                  name |-> cfg.name,
                  cores |-> cfg.cores,
                  memory |-> cfg.memory,
                  hostname |-> cfg.hostname,
                  username |-> cfg.username,
                  network |-> [bridge |-> cfg.network.bridge,
                               vlan |-> cfg.network.vlan,
                               speed |-> cfg.network.speed]]]

\* startVM, lines 186-193, then provisionVM, lines 53-75: updateVMStatus has
\* completed or thrown (swallowed); the result is returned
StatusDone(p) ==
  /\ pc[p] = "update_status"
  /\ \E ok \in BOOLEAN :
       statusLog' = [statusLog EXCEPT ![p][Len(statusLog[p])].st =
                       IF ok THEN "ok" ELSE "failed"]
  /\ provResult' = [provResult EXCEPT ![p] =
                      Some(ProvisionResult(VmidOf(p), Val(opts[p])))]
  /\ pc' = [pc EXCEPT ![p] = "done"]
  /\ UNCHANGED <<shared, world, locals, counts, history, config, opts, cmdLog,
                 caught, err, rejections, api>>

\* lines 81-82: `qm stop ... || true` has completed; `qm destroy ... || true`
\* is issued, or the rejection is caught at line 84 and line 88 rethrows
RollbackStopDone(p) ==
  /\ pc[p] = "stop"
  /\ \E ok \in CmdOutcomes("stop", VmidOf(p)) :
       /\ IF Rejects(ok, TRUE)
          THEN /\ cmdLog' = [cmdLog EXCEPT ![p] = Settled(p, ok)]
               /\ pc' = [pc EXCEPT ![p] = "failed"]
               /\ err' = [err EXCEPT ![p] = caught[p]]
               /\ rejections' = rejections \cup {Val(caught[p]).kind}
          ELSE /\ cmdLog' = [cmdLog EXCEPT ![p] =
                               Append(Settled(p, ok),
                                      Entry("destroy", VmidOf(p),
                                            RollbackArgs))]
               /\ pc' = [pc EXCEPT ![p] = "destroy"]
               /\ UNCHANGED <<err, rejections>>
  /\ UNCHANGED <<shared, world, locals, counts, history, config, opts, caught,
                 provResult, statusLog, api>>

\* line 88 as `throw cleanupError` when the destroy failed
RollbackDestroyDoneThrowingCleanup(p) ==
  /\ pc[p] = "destroy"
  /\ \E ok \in CmdOutcomes("destroy", VmidOf(p)) :
       /\ localVMs' = LocalAfter("destroy", VmidOf(p), ok)
       /\ cmdLog' = [cmdLog EXCEPT ![p] = Settled(p, ok)]
       /\ err' = [err EXCEPT ![p] =
                    IF ok THEN caught[p] ELSE Some(CommandError("destroy"))]
  /\ rejections' = rejections \cup {"CommandError"}
  /\ pc' = [pc EXCEPT ![p] = "failed"]
  /\ UNCHANGED <<shared, clock, remoteVMs, locals, counts, history, config,
                 opts, caught, provResult, statusLog, api>>

\* a failed destroy that starts the cleanup of lines 81-82 again
RollbackDestroyDoneRetrying(p) ==
  /\ pc[p] = "destroy"
  /\ \E ok \in CmdOutcomes("destroy", VmidOf(p)) :
       /\ localVMs' = LocalAfter("destroy", VmidOf(p), ok)
       /\ IF ok
          THEN /\ cmdLog' = [cmdLog EXCEPT ![p] = Settled(p, ok)]
               /\ pc' = [pc EXCEPT ![p] = "failed"]
               /\ err' = [err EXCEPT ![p] = caught[p]]
               /\ rejections' = rejections \cup {Val(caught[p]).kind}
          ELSE /\ cmdLog' = [cmdLog EXCEPT ![p] =
                               [SubSeq(@, 1, Len(@) - 1)
                                  EXCEPT ![Len(@) - 1].st = "pending"]]
               /\ pc' = [pc EXCEPT ![p] = "stop"]
               /\ UNCHANGED <<err, rejections>>
  /\ UNCHANGED <<shared, clock, remoteVMs, locals, counts, history, config,
                 opts, caught, provResult, statusLog, api>>

\* a rollback that hands the identifier of the destroyed VM back to the
\* allocator
RollbackDestroyDoneReleasingId(p) ==
  /\ pc[p] = "destroy"
  /\ \E ok \in CmdOutcomes("destroy", VmidOf(p)) :
       /\ localVMs' = LocalAfter("destroy", VmidOf(p), ok)
       /\ cmdLog' = [cmdLog EXCEPT ![p] = Settled(p, ok)]
  /\ pc' = [pc EXCEPT ![p] = "failed"]
  /\ err' = [err EXCEPT ![p] = caught[p]]
  /\ rejections' = rejections \cup {Val(caught[p]).kind}
  /\ nextId' = Some(VmidOf(p))
  /\ UNCHANGED <<vmCache, cacheExpiry, vmIdFile, clock, remoteVMs, locals,
                 counts, history, config, opts, caught, provResult, statusLog,
                 api>>

\* lines 82-88: `qm destroy ... || true` has completed; the caught error is
\* rethrown
RollbackDestroyDone(p) ==
  /\ pc[p] = "destroy"
  /\ \E ok \in CmdOutcomes("destroy", VmidOf(p)) :
       /\ localVMs' = LocalAfter("destroy", VmidOf(p), ok)
       /\ cmdLog' = [cmdLog EXCEPT ![p] = Settled(p, ok)]
  /\ pc' = [pc EXCEPT ![p] = "failed"]
  /\ err' = [err EXCEPT ![p] = caught[p]]
  /\ rejections' = rejections \cup {Val(caught[p]).kind}
  /\ UNCHANGED <<shared, clock, remoteVMs, locals, counts, history, config,
                 opts, caught, provResult, statusLog, api>>

\* the ProvisionOptionsSchema on the fields the model carries: the fields
\* of data that break their rule (part_000, lines 3-55)
SchemaErrors(data) ==
  {f \in {"subscriptionId", "os", "name", "hostname", "password", "cores",
          "memory", "network.vlan"} :
     CASE f = "subscriptionId" -> data.subscriptionId = ""
       [] f = "os" -> data.os = ""
       [] f = "name" -> \/ Len(data.name) < 1
                        \/ Len(data.name) > 64
                        \/ \E i \in 1..Len(data.name) :
                             ~IsNameChar(data.name[i])
       [] f = "hostname" -> data.hostname = ""
       [] f = "password" -> Len(data.password) < 8
       [] f = "cores" -> data.cores # Null /\ Val(data.cores) \notin 1..32
       [] f = "memory" ->
            data.memory # Null /\ Val(data.memory) \notin 512..32768
       [] f = "network.vlan" ->
            /\ data.network # Null
            /\ Val(data.network).vlan # Null
            /\ Val(Val(data.network).vlan) \notin 1..4094}

\* validateProvisionOptions, lines 209-238: the fields in error
validateProvisionOptionsSchemaOnly(opts_) == SchemaErrors(opts_)

validateProvisionOptions(opts_) ==
  IF SchemaErrors(opts_) # {} THEN SchemaErrors(opts_)
  ELSE IF getTemplate(opts_.os) = Null THEN {"os"}
  ELSE {}

\* bodies of POST /provision-vm: the options above, and ones the schema
\* refuses
RequestBodies ==
  ProvisionInputs \cup
  { [BareOptions EXCEPT !.password = <<"s", "h", "o", "r", "t">>],
    [BareOptions EXCEPT !.os = "centos", !.cores = Some(64)] }

\* routes, lines 149-163: the handler up to its first await; the body is
\* refused with 400, or provisionVM is called with the validated data
PostProvisionVm(p) ==
  /\ pc[p] \in {"idle", "replied"} \/ (Finished(p) /\ request[p] = Null)
  /\ FreshRun(p)
  /\ \E body \in RequestBodies :
       /\ request' = [request EXCEPT ![p] = Some(body)]
       /\ IF validateProvisionOptions(body) # {}
          THEN /\ reply' = [reply EXCEPT ![p] =
                              Some([code |-> 400,
                                    validationErrors |->
                                      validateProvisionOptions(body)])]
               /\ pc' = [pc EXCEPT ![p] = "replied"]
               /\ UNCHANGED <<shared, world, locals, counts, history, opts>>
          ELSE /\ reply' = [reply EXCEPT ![p] = Null]
               /\ opts' = [opts EXCEPT ![p] = Some(body)]
               /\ Call(p)
  /\ UNCHANGED <<config, rejections, records, lifeOp>>

\* DatabaseService.saveVMRecord, lines 65-86: the document built from the
\* options and the result
VMRecord(provisionOptions, provisionResult) ==
  [vmid |-> provisionResult.vmid,
   subscriptionId |-> provisionOptions.subscriptionId,
   name |-> provisionResult.config.name,
   hostname |-> provisionResult.config.hostname,
   os |-> provisionResult.config.os,
   cores |-> provisionResult.config.cores,
   memory |-> provisionResult.config.memory,
   diskSize |-> IF provisionOptions.diskSize # Null
                THEN Val(provisionOptions.diskSize)
                ELSE "10G",
   status |-> provisionResult.status,
   network |-> [bridge |-> IF provisionResult.config.network.bridge # ""
                           THEN provisionResult.config.network.bridge
                           ELSE "vmbr0",
                vlan |-> IF provisionResult.config.network.vlan # 0
                         THEN provisionResult.config.network.vlan
                         ELSE 1,
                speed |-> IF provisionResult.config.network.speed # ""
                          THEN provisionResult.config.network.speed
                          ELSE "100"]]

\* routes, lines 163-173: provisionVM has returned; saveVMRecord is awaited
RouteProvisioned(p) ==
  /\ pc[p] = "done"
  /\ request[p] # Null
  /\ pc' = [pc EXCEPT ![p] = "save_record"]
  /\ UNCHANGED <<shared, world, locals, counts, history, prov>>

\* a failed saveVMRecord left to reach the catch of line 186
RouteSaveDoneUncaught(p) ==
  /\ pc[p] = "save_record"
  /\ \E ok \in BOOLEAN :
       /\ records' = IF ok
                     THEN records \cup {VMRecord(Val(request[p]),
                                                 Val(provResult[p]))}
                     ELSE records
       /\ reply' = [reply EXCEPT ![p] =
                      IF ok THEN Some([code |-> 201, data |-> Val(provResult[p])])
                      ELSE Some([code |-> 500,
                                 error |-> [kind |-> "PersistenceError"]])]
  /\ pc' = [pc EXCEPT ![p] = "replied"]
  /\ UNCHANGED <<shared, world, locals, counts, history, config, opts, cmdLog,
                 caught, err, provResult, statusLog, rejections, request,
                 lifeOp>>

\* routes, lines 165-185: saveVMRecord has saved the record or has thrown
\* (caught at line 174); 201 with the result is sent
RouteSaveDone(p) ==
  /\ pc[p] = "save_record"
  /\ \E ok \in BOOLEAN :
       records' = IF ok
                  THEN records \cup {VMRecord(Val(request[p]),
                                              Val(provResult[p]))}
                  ELSE records
  /\ reply' = [reply EXCEPT ![p] =
                 Some([code |-> 201, data |-> Val(provResult[p])])]
  /\ pc' = [pc EXCEPT ![p] = "replied"]
  /\ UNCHANGED <<shared, world, locals, counts, history, config, opts, cmdLog,
                 caught, err, provResult, statusLog, rejections, request,
                 lifeOp>>

\* routes, lines 186-195: provisionVM has thrown; 500 with the error is sent
RouteProvisionFailed(p) ==
  /\ pc[p] = "failed"
  /\ request[p] # Null
  /\ reply' = [reply EXCEPT ![p] = Some([code |-> 500, error |-> Val(err[p])])]
  /\ pc' = [pc EXCEPT ![p] = "replied"]
  /\ UNCHANGED <<shared, world, locals, counts, history, config, opts, cmdLog,
                 caught, err, provResult, statusLog, rejections, request,
                 records, lifeOp>>

(***************************************************************************)
(* The preHandler hook of the routes and authenticateToken (auth.ts,       *)
(* lines 10-88 and 135-141). Header values, tokens and URLs are sequences  *)
(* of characters.                                                          *)
(***************************************************************************)
\* s.startsWith(prefix)
startsWith(s, prefix) ==
  Len(s) >= Len(prefix) /\ SubSeq(s, 1, Len(prefix)) = prefix

\* s.substring(n)
substring(s, n) == SubSeq(s, n + 1, Len(s))

\* s.split(","): the pieces between the commas
RECURSIVE split(_)
split(s) ==
  IF \A i \in 1..Len(s) : s[i] # ","
  THEN <<s>>
  ELSE LET k == CHOOSE i \in 1..Len(s) :
                  s[i] = "," /\ \A j \in 1..(i - 1) : s[j] # ","
       IN <<SubSeq(s, 1, k - 1)>> \o split(SubSeq(s, k + 1, Len(s)))

\* a header or an environment variable that is set and not empty
Truthy(o) == o # Null /\ Val(o) # <<>>

BearerPrefix == <<"B", "e", "a", "r", "e", "r", " ">>

DevToken == <<"d", "e", "v", "-", "t", "o", "k", "e", "n", "-", "1", "2", "3">>

HealthcheckUrl == <<"/", "h", "e", "a", "l", "t", "h", "c", "h", "e", "c", "k">>

\* the path the router matches a URL by: the URL without its query string
Path(url) ==
  IF \A i \in 1..Len(url) : url[i] # "?"
  THEN url
  ELSE SubSeq(url, 1, (CHOOSE i \in 1..Len(url) :
                         url[i] = "?" /\ \A j \in 1..(i - 1) : url[j] # "?") - 1)

\* lines 15-25: the token of the request, Null when it carries none
TokenOf(http) ==
  IF Truthy(http.authorization)
     /\ startsWith(Val(http.authorization), BearerPrefix)
  THEN Some(substring(Val(http.authorization), 7))
  ELSE IF Truthy(http.xApiKey) THEN http.xApiKey
  ELSE Null

\* lines 63-72: API_TOKEN followed by the trimmed pieces of API_TOKENS
ConfiguredTokens(env) ==
  (IF Truthy(env.API_TOKEN) THEN <<Val(env.API_TOKEN)>> ELSE <<>>)
  \o (IF Truthy(env.API_TOKENS)
      THEN [i \in 1..Len(split(Val(env.API_TOKENS))) |->
              Trim(split(Val(env.API_TOKENS))[i])]
      ELSE <<>>)

\* getValidTokens, lines 60-88: Null when it throws
getValidTokens(env) ==
  IF ConfiguredTokens(env) # <<>> THEN Some(ConfiguredTokens(env))
  ELSE IF env.NODE_ENV # "production" THEN Some(<<DevToken>>)
  ELSE Null

includes(tokens, token) == \E i \in 1..Len(tokens) : tokens[i] = token

\* an invalid token answered like a missing one
authenticateTokenUnauthorized(http, env) ==
  IF ~Truthy(TokenOf(http))
  THEN Some([code |-> 401, error |-> "No token provided"])
  ELSE IF getValidTokens(env) = Null
  THEN Some([code |-> 500, error |-> "Internal authentication error"])
  ELSE IF ~includes(Val(getValidTokens(env)), Val(TokenOf(http)))
  THEN Some([code |-> 401, error |-> "Invalid token"])
  ELSE Null

\* authenticateToken, lines 10-55: the reply it sends, Null when it sends
\* none and the request goes on to its handler
authenticateToken(http, env) ==
  IF ~Truthy(TokenOf(http))
  THEN Some([code |-> 401, error |-> "No token provided"])
  ELSE IF getValidTokens(env) = Null
  THEN Some([code |-> 500, error |-> "Internal authentication error"])
  ELSE IF ~includes(Val(getValidTokens(env)), Val(TokenOf(http)))
  THEN Some([code |-> 403, error |-> "Invalid token"])
  ELSE Null

\* the preHandler hook, lines 135-141
preHandler(http, env) ==
  IF http.url = HealthcheckUrl THEN Null ELSE authenticateToken(http, env)

\* requests: the health check and a protected route, without and with a
\* query string; no header, Bearer with a configured, an unknown, the
\* development and an empty token, another scheme; x-api-key
Urls ==
  { HealthcheckUrl, HealthcheckUrl \o <<"?", "d", "=", "1">>,
    <<"/", "v", "m", "s">>, <<"/", "v", "m", "s", "?", "p", "=", "1">> }

Authorizations ==
  { Null, Some(BearerPrefix \o <<"g">>), Some(BearerPrefix \o <<"k">>),
    Some(BearerPrefix \o <<"x">>), Some(BearerPrefix \o DevToken),
    Some(BearerPrefix), Some(<<"B", "a", "s", "i", "c", " ", "g">>) }

ApiKeys == {Null, Some(<<"g">>), Some(<<"x">>)}

HttpRequests ==
  [url : Urls, authorization : Authorizations, xApiKey : ApiKeys]

\* process.env: API_TOKEN, API_TOKENS ("h, k") and NODE_ENV
Envs ==
  [API_TOKEN : {Null, Some(<<"g">>)},
   API_TOKENS : {Null, Some(<<"h", ",", " ", "k">>)},
   NODE_ENV : {"production", "development"}]

\* a request arrives: the preHandler hook answers it, or hands it to the
\* handler of its route
HttpRequest(p) ==
  /\ pc[p] \in {"idle", "replied"}
  /\ \E http \in HttpRequests : \E env \in Envs :
       /\ request' = [request EXCEPT ![p] = Some([http |-> http, env |-> env])]
       /\ reply' = [reply EXCEPT ![p] = preHandler(http, env)]
       /\ pc' = [pc EXCEPT ![p] =
                   IF preHandler(http, env) # Null THEN "replied"
                   ELSE "handler"]
  /\ UNCHANGED <<shared, world, locals, counts, history, config, opts, cmdLog,
                 caught, err, provResult, statusLog, rejections, records,
                 lifeOp>>

\* the handler of the route has answered (GET /healthcheck always with 200,
\* lines 203-234)
HandlerDone(p) ==
  /\ pc[p] = "handler"
  /\ \E code \in (IF Path(Val(request[p]).http.url) = HealthcheckUrl
                  THEN {200} ELSE {200, 500}) :
       reply' = [reply EXCEPT ![p] =
                   Some([code |-> code,
                         handler |-> Path(Val(request[p]).http.url)])]
  /\ pc' = [pc EXCEPT ![p] = "replied"]
  /\ UNCHANGED <<shared, world, locals, counts, history, config, opts, cmdLog,
                 caught, err, provResult, statusLog, rejections, request,
                 records, lifeOp>>

(***************************************************************************)
(* The lifecycle operations of VMProvisioningService, lines 248-326: one   *)
(* command each (two for deleteVM), then for some a status update.         *)
(***************************************************************************)
LifecycleOps == {"stop", "start", "restart", "reset", "delete"}

\* the identifiers the lifecycle operations are called with
LifeIds == SEED_ID..(SEED_ID + 1)

LifePcs == {"life_cmd", "life_status", "delete_stop", "delete_destroy"}

\* the status stopVM, startVMById and restartVM hand to updateVMStatus
StatusAfter(op) == IF op = "stop" THEN "stopped" ELSE "running"

\* the operations that call DatabaseService.updateVMStatus (lines 255, 274,
\* 293)
UpdatesStatus(op) == op \in {"stop", "start", "restart"}

\* stopVM, startVMById, restartVM, resetVM, deleteVM: the call, up to the
\* first await of runCommand
LifecycleCall(p) ==
  /\ pc[p] \in {"idle", "life_done", "life_failed"} \/ Finished(p)
  /\ FreshRun(p)
  /\ UNCHANGED <<shared, world, locals, counts, history, config, opts,
                 rejections, request, reply, records>>
  /\ \E op \in LifecycleOps : \E vmid \in LifeIds :
       /\ lifeOp' = [lifeOp EXCEPT ![p] = Some([op |-> op, vmid |-> vmid])]
       /\ pc' = [pc EXCEPT ![p] =
                   IF op = "delete" THEN "delete_stop" ELSE "life_cmd"]

\* lines 250, 269, 288, 307: the command has completed; its rejection leaves
\* the operation, else updateVMStatus is awaited (not by resetVM)
LifecycleCmdDone(p) ==
  /\ pc[p] = "life_cmd"
  /\ LET op == Val(lifeOp[p]).op
         vmid == Val(lifeOp[p]).vmid
     IN \E ok \in CmdOutcomes(op, vmid) :
          IF Rejects(ok, FALSE)
          THEN /\ pc' = [pc EXCEPT ![p] = "life_failed"]
               /\ err' = [err EXCEPT ![p] = Some(CommandError(op))]
               /\ UNCHANGED statusLog
          ELSE IF UpdatesStatus(op)
          THEN /\ pc' = [pc EXCEPT ![p] = "life_status"]
               /\ statusLog' = [statusLog EXCEPT ![p] =
                                  Append(@, [vmid |-> vmid,
                                             status |-> StatusAfter(op),
                                             st |-> "pending"])]
               /\ UNCHANGED err
          ELSE /\ pc' = [pc EXCEPT ![p] = "life_done"]
               /\ UNCHANGED <<err, statusLog>>
  /\ UNCHANGED <<shared, world, locals, counts, history, config, opts, cmdLog,
                 caught, provResult, rejections, api>>

\* lines 254-261, 273-280, 292-299: updateVMStatus has completed or thrown
\* (swallowed); the operation returns
LifecycleStatusDone(p) ==
  /\ pc[p] = "life_status"
  /\ \E ok \in BOOLEAN :
       statusLog' = [statusLog EXCEPT ![p][Len(statusLog[p])].st =
                       IF ok THEN "ok" ELSE "failed"]
  /\ pc' = [pc EXCEPT ![p] = "life_done"]
  /\ UNCHANGED <<shared, world, locals, counts, history, config, opts, cmdLog,
                 caught, err, provResult, rejections, api>>

\* deleteVM, lines 317-324: `qm stop ... || true` has completed (a rejection
\* is caught at line 320); `qm destroy ... --skiplock` is awaited
DeleteStopDone(p) ==
  /\ pc[p] = "delete_stop"
  /\ pc' = [pc EXCEPT ![p] = "delete_destroy"]
  /\ UNCHANGED <<shared, world, locals, counts, history, prov>>

\* a deleteVM that ends with VMIdManager.refreshCache(): the expiry is reset
DeleteDestroyDoneRefreshingCache(p) ==
  /\ pc[p] = "delete_destroy"
  /\ LET vmid == Val(lifeOp[p]).vmid
     IN \E ok \in CmdOutcomes("destroy", vmid) :
          /\ localVMs' = LocalAfter("destroy", vmid, ok)
          /\ IF Rejects(ok, FALSE)
             THEN /\ pc' = [pc EXCEPT ![p] = "life_failed"]
                  /\ err' = [err EXCEPT ![p] = Some(CommandError("destroy"))]
             ELSE /\ pc' = [pc EXCEPT ![p] = "life_done"]
                  /\ UNCHANGED err
  /\ cacheExpiry' = 0
  /\ UNCHANGED <<nextId, vmCache, vmIdFile, clock, remoteVMs, locals, counts,
                 history, config, opts, cmdLog, caught, provResult, statusLog,
                 rejections, api>>

\* deleteVM, lines 324-325: the destroy has completed; its rejection leaves
\* deleteVM
DeleteDestroyDone(p) ==
  /\ pc[p] = "delete_destroy"
  /\ LET vmid == Val(lifeOp[p]).vmid
     IN \E ok \in CmdOutcomes("destroy", vmid) :
          /\ localVMs' = LocalAfter("destroy", vmid, ok)
          /\ IF Rejects(ok, FALSE)
             THEN /\ pc' = [pc EXCEPT ![p] = "life_failed"]
                  /\ err' = [err EXCEPT ![p] = Some(CommandError("destroy"))]
             ELSE /\ pc' = [pc EXCEPT ![p] = "life_done"]
                  /\ UNCHANGED err
  /\ UNCHANGED <<shared, clock, remoteVMs, locals, counts, history, config,
                 opts, cmdLog, caught, provResult, statusLog, rejections, api>>

Lifecycle(p) ==
  \/ LifecycleCall(p)
  \/ LifecycleCmdDone(p)
  \/ LifecycleStatusDone(p)
  \/ DeleteStopDone(p)
  \/ DeleteDestroyDone(p)

\* a POST /provision-vm request, from the handler's start to its reply
PostProvisionVmRoute(p) ==
  \/ PostProvisionVm(p)
  \/ RouteProvisioned(p)
  \/ RouteSaveDone(p)
  \/ RouteProvisionFailed(p)

ProvisionVM(p) ==
  \/ Provision(p)
  \/ AllocateStep(p) /\ UNCHANGED prov
  \/ AllocationFailed(p)
  \/ Resolve(p)
  \/ CloneDone(p)
  \/ ConfigureDone(p)
  \/ CloudInitDone(p)
  \/ StartDone(p)
  \/ StatusDone(p)
  \/ RollbackStopDone(p)
  \/ RollbackDestroyDone(p)

\* clusters the runs start on: nearly empty, or the whole window that
\* follows the first identifier in use
ProvClusters ==
  { [local |-> {}, remote |-> {SEED_ID + 1}],
    [local |-> {}, remote |-> {v + 1 : v \in Window}] }

InitProv ==
  /\ InitProcess
  /\ config \in {c \in Configs : c.defaults.disk_size = "10G"}
  /\ vmIdFile = Some(toString(SEED_ID))
  /\ \E c \in ProvClusters :
       /\ localVMs = c.local
       /\ remoteVMs = c.remote
  /\ ioFaults = FALSE

\* runs of all callers, interleaved at their awaits
NextProv == \E p \in Callers : ProvisionVM(p)

SpecProv == InitProv /\ [][NextProv]_vars

\* the process has started with any of the network sections on the template
InitRun ==
  /\ InitProcess
  /\ config \in NetConfigs
  /\ vmIdFile = Some(toString(SEED_ID))
  /\ \E c \in ProvClusters :
       /\ localVMs = c.local
       /\ remoteVMs = c.remote
  /\ ioFaults = FALSE

\* lifecycle operations of all callers on a node that hosts LifeIds
InitLife ==
  /\ InitProcess
  /\ config \in {c \in Configs : c.defaults.disk_size = "10G"}
  /\ vmIdFile = Some(toString(SEED_ID))
  /\ localVMs = LifeIds
  /\ remoteVMs = {}
  /\ ioFaults = FALSE

NextLife == \E p \in Callers : Lifecycle(p)

SpecLife == InitLife /\ [][NextLife]_vars

\* one caller that provisions VMs and operates on them, one call at a time
NextOps == \E p \in SeqCallers : ProvisionVM(p) \/ Lifecycle(p)

\* network sections of a template that name VLAN 0 and VLAN 1
UntaggedNetworks ==
  { Some([bridge |-> Null, model |-> Null, vlan |-> Some(v), speed |-> Null]) :
      v \in {0, 1} }

\* templates.yaml with either default disk size, and with each network
\* section on the template
OpsConfigs ==
  Configs \cup NetConfigs
  \cup { [templates |-> [debian12 |-> [Templates.debian12 EXCEPT !.network = n]],
          defaults |-> Defaults("10G")] : n \in UntaggedNetworks }

\* the process has started with any of these templates.yaml
InitOps ==
  /\ InitProcess
  /\ config \in OpsConfigs
  /\ vmIdFile = Some(toString(SEED_ID))
  /\ \E c \in ProvClusters :
       /\ localVMs = c.local
       /\ remoteVMs = c.remote
  /\ ioFaults = FALSE

SpecOps == InitOps /\ [][NextOps]_vars

\* one caller that provisions VMs while other processes and hosts create and
\* destroy VMs in the cluster
NextEnv ==
  \/ \E p \in SeqCallers : ProvisionVM(p)
  \/ EnvCreate
  \/ EnvDestroy

SpecEnv == InitProv /\ [][NextEnv]_vars

\* HTTP requests, one at a time
NextAuth == \E p \in SeqCallers : HttpRequest(p) \/ HandlerDone(p)

\* the server after start-up, before any request
InitAuth ==
  /\ InitProcess
  /\ config \in {c \in Configs : c.defaults.disk_size = "10G"}
  /\ vmIdFile = Some(toString(SEED_ID))
  /\ localVMs = {}
  /\ remoteVMs = {}
  /\ ioFaults = FALSE

SpecAuth == InitAuth /\ [][NextAuth]_vars

\* one request at a time: each run starts after the previous one has ended
NextRun == \E p \in SeqCallers : ProvisionVM(p) \/ PostProvisionVmRoute(p)

SpecRun == InitRun /\ [][NextRun]_vars

\* an await of provisionVM resumes: its file access, command or database
\* call has completed or failed
Completion(p) ==
  \/ AllocateStep(p) /\ UNCHANGED prov
  \/ AllocationFailed(p)
  \/ Resolve(p)
  \/ CloneDone(p)
  \/ ConfigureDone(p)
  \/ CloudInitDone(p)
  \/ StartDone(p)
  \/ StatusDone(p)
  \/ RollbackStopDone(p)
  \/ RollbackDestroyDone(p)

\* every external operation eventually completes or fails
SpecRunFair == SpecRun /\ \A p \in SeqCallers : WF_vars(Completion(p))

(***************************************************************************)
(* Properties of provisionVM.                                              *)
(***************************************************************************)
ConfigureOps == {"set_cores_memory", "set_net0", "resize"}

RollbackOps == {"stop", "destroy"}

\* positions of the commands of run p that failed
FailedAt(p) == {i \in 1..Len(cmdLog[p]) : cmdLog[p][i].st = "failed"}

\* the first command of run p that failed
FirstFailed(p) ==
  cmdLog[p][CHOOSE i \in FailedAt(p) : \A j \in FailedAt(p) : i <= j]

\* how many times run p issued op against vmid
Issued(p, op, vmid) ==
  Cardinality({i \in 1..Len(cmdLog[p]) :
                 cmdLog[p][i].op = op /\ cmdLog[p][i].vmid = vmid})

\* C8: when a command of the Configure step has failed, provisionVM fails
\* with that error, and stop and destroy were each issued exactly once
\* against the allocated identifier, whatever their own outcome.
C8_ConfigureFailureRollsBackOnce ==
  \A p \in Callers :
    (/\ Finished(p)
     /\ \E i \in FailedAt(p) : cmdLog[p][i].op \in ConfigureOps)
    => /\ pc[p] = "failed"
       /\ provResult[p] = Null
       /\ FirstFailed(p).op \in ConfigureOps
       /\ err[p] = Some(CommandError(FirstFailed(p).op))
       /\ Issued(p, "stop", VmidOf(p)) = 1
       /\ Issued(p, "destroy", VmidOf(p)) = 1
       /\ \A i \in 1..Len(cmdLog[p]) :
            cmdLog[p][i].op \in RollbackOps => cmdLog[p][i].vmid = VmidOf(p)

C8_Witness ==
  \E p \in Callers :
    /\ pc[p] = "failed"
    /\ FailedAt(p) # {}
    /\ FirstFailed(p).op = "set_net0"
    /\ \E i \in FailedAt(p) : cmdLog[p][i].op = "stop"
    /\ Issued(p, "destroy", VmidOf(p)) = 1

\* the promise of provisionVM is settled: the service has returned or thrown,
\* and the route that awaited it may have gone on to save and to answer
ProvisionSettled(p) ==
  \/ Finished(p)
  \/ pc[p] \in RoutePcs
  \/ pc[p] = "replied" /\ Val(reply[p]).code # 400

\* C9: a run that fails with TemplateNotFound or AllocationExhausted has
\* issued no command at all: no clone, set, resize, start, stop or destroy.
C9_EarlyFailuresIssueNoCommand ==
  \A p \in Callers :
    (err[p] # Null
     /\ Val(err[p]).kind \in {"TemplateNotFound", "AllocationExhausted"})
    => /\ cmdLog[p] = <<>>
       /\ ProvisionSettled(p)
       /\ provResult[p] = Null
       /\ caught[p] = Null

C9_Witness ==
  \E p \in Callers :
    /\ pc[p] = "failed"
    /\ err[p] = Some([kind |-> "AllocationExhausted"])
    /\ "TemplateNotFound" \in rejections

\* C10: when a step from Clone onward fails, provisionVM rejects with the
\* error of the first failing step, whatever the stop and the destroy did,
\* and a run ends with a result or with one error, never both.
C10_FirstErrorIsRaised ==
  \A p \in Callers :
    /\ (ProvisionSettled(p) /\ FailedAt(p) # {})
         => /\ pc[p] \in {"failed", "replied"}
            /\ FirstFailed(p).op \notin RollbackOps
            /\ err[p] = Some(CommandError(FirstFailed(p).op))
    /\ ProvisionSettled(p) => ((err[p] = Null) <=> (provResult[p] # Null))
    /\ ~ProvisionSettled(p) => (err[p] = Null /\ provResult[p] = Null)

C10_Witness ==
  \E p \in Callers :
    /\ pc[p] = "failed"
    /\ err[p] = Some(CommandError("start"))
    /\ \E i \in FailedAt(p) : cmdLog[p][i].op = "stop"
    /\ \E i \in FailedAt(p) : cmdLog[p][i].op = "destroy"

\* the last updateVMStatus of run p has thrown
StatusUpdateFailed(p) ==
  statusLog[p] # <<>> /\ statusLog[p][Len(statusLog[p])].st = "failed"

\* C11: a failed status update after a successful start leaves provisionVM
\* returning a result with status running and no rollback command issued;
\* and once provisionVM has returned, POST /provision-vm answers 201 with
\* that result whether or not the record was saved.
C11_PersistenceFailureKeepsOutcome ==
  \A p \in Callers :
    /\ StatusUpdateFailed(p)
         => /\ provResult[p] # Null
            /\ Val(provResult[p]).status = "running"
            /\ err[p] = Null
            /\ \A i \in 1..Len(cmdLog[p]) : cmdLog[p][i].op \notin RollbackOps
    /\ (pc[p] = "replied" /\ provResult[p] # Null)
         => reply[p] = Some([code |-> 201, data |-> Val(provResult[p])])

C11_Witness ==
  \E p \in Callers :
    /\ pc[p] = "replied"
    /\ StatusUpdateFailed(p)
    /\ provResult[p] # Null
    /\ \A r \in records : r.vmid # Val(provResult[p]).vmid
    /\ Val(reply[p]).code = 201

\* the commands of lines 48-51 in the order of the source text
PipelineOrder ==
  <<"clone", "set_cores_memory", "set_net0", "resize", "set_ciuser",
    "set_cipassword", "set_name", "set_sshkeys", "start">>

OptionalOps == {"resize", "set_sshkeys"}

Rank(op) == CHOOSE i \in 1..Len(PipelineOrder) : PipelineOrder[i] = op

\* the commands of run p that are not rollback commands, in issue order
PipelineLog(p) == SelectSeq(cmdLog[p], LAMBDA e : e.op \notin RollbackOps)

\* C12: the commands of a run are issued in the order clone, set cores and
\* memory, set net0, optional resize, set ciuser, set cipassword, set name,
\* optional sshkeys, start; and a command is issued only once the one before
\* it has completed successfully.
C12_CommandsInFixedOrder ==
  \A p \in Callers :
    LET log == PipelineLog(p)
    IN /\ log # <<>> => log[1].op = "clone"
       /\ \A i \in 1..(Len(log) - 1) :
            /\ log[i].st = "ok"
            /\ Rank(log[i + 1].op) > Rank(log[i].op)
            /\ \A r \in (Rank(log[i].op) + 1)..(Rank(log[i + 1].op) - 1) :
                 PipelineOrder[r] \in OptionalOps
       /\ \A i \in 1..Len(cmdLog[p]) :
            cmdLog[p][i].st = "pending" => i = Len(cmdLog[p])

C12_Witness ==
  \E p \in Callers :
    /\ pc[p] = "done"
    /\ Len(PipelineLog(p)) = Len(PipelineOrder)
    /\ \A i \in 1..Len(PipelineOrder) : PipelineLog(p)[i].op = PipelineOrder[i]

\* the VLAN the request, the template and the defaults give, if any
RequestVlan(o) ==
  IF o.network # Null THEN Val(o.network).vlan ELSE Null

TemplateVlan(o) ==
  LET template == config.templates[toLowerCase(o.os)]
  IN IF template.network # Null THEN Val(template.network).vlan ELSE Null

\* C13: the resolved VLAN is the request's when the request gives one, else
\* the template's when the template gives one, else the global default's
\* (request 100, template 50, default 1 resolve to 100, 50 and 1 as the
\* higher layers are removed).
C13_VlanPrecedence ==
  \A p \in Callers :
    provResult[p] # Null =>
      LET o == Val(opts[p])
          vlan == Val(provResult[p]).config.network.vlan
      IN /\ RequestVlan(o) # Null => vlan = Val(RequestVlan(o))
         /\ (RequestVlan(o) = Null /\ TemplateVlan(o) # Null)
              => vlan = Val(TemplateVlan(o))
         /\ (RequestVlan(o) = Null /\ TemplateVlan(o) = Null)
              => vlan = config.defaults.network.vlan
         /\ RequestVlan(o) = Some(100) => vlan = 100
         /\ (RequestVlan(o) = Null /\ TemplateVlan(o) = Some(50)) => vlan = 50
         /\ (RequestVlan(o) = Null /\ TemplateVlan(o) = Null
             /\ config.defaults.network.vlan = 1) => vlan = 1
         /\ \A i \in 1..Len(cmdLog[p]) :
              (cmdLog[p][i].op = "set_net0"
               /\ cmdLog[p][i].args.net0.tag # Null)
              => cmdLog[p][i].args.net0.tag = Some(vlan)

\* a request without a VLAN resolved to the template's 50, after a request
\* with VLAN 100 on the same template
C13_Witness ==
  \E p \in Callers :
    /\ provResult[p] # Null
    /\ RequestVlan(Val(opts[p])) = Null
    /\ TemplateVlan(Val(opts[p])) = Some(50)
    /\ config.defaults.network.vlan = 1
    /\ Val(provResult[p]).config.network.vlan = 50
    /\ \E r \in records : r.network.vlan = 100

\* positions of the commands of lines 48-51 of run p that failed
PipelineFailedAt(p) == {i \in FailedAt(p) : cmdLog[p][i].op \notin RollbackOps}

\* C14: once a command of the Clone, Configure, Cloud-init or Start step has
\* failed, the only commands the run issues afterwards are stop and then
\* destroy, against the allocated identifier, and both have completed when
\* provisionVM throws.
C14_FailureAbortsThenRollsBack ==
  \A p \in Callers : \A i \in PipelineFailedAt(p) :
    LET n == Len(cmdLog[p])
    IN /\ n \in {i + 1, i + 2}
       /\ cmdLog[p][i + 1].op = "stop"
       /\ n = i + 2 => (cmdLog[p][i + 2].op = "destroy"
                        /\ cmdLog[p][i + 1].st # "pending")
       /\ \A j \in (i + 1)..n : cmdLog[p][j].vmid = VmidOf(p)
       /\ (pc[p] = "failed" \/ err[p] # Null)
            => (n = i + 2 /\ cmdLog[p][n].st # "pending")

C14_Witness ==
  \E p \in Callers :
    /\ pc[p] = "failed"
    /\ PipelineFailedAt(p) # {}
    /\ FirstFailed(p).op = "set_cipassword"
    /\ cmdLog[p][Len(cmdLog[p])].op = "destroy"
    /\ cmdLog[p][Len(cmdLog[p]) - 1].op = "stop"

\* C15: two runs of the process never issue a command against the same
\* identifier, however their steps interleave.
C15_RunsTargetDistinctIds ==
  \A p \in Callers : \A q \in Callers \ {p} :
    \A i \in 1..Len(cmdLog[p]) : \A j \in 1..Len(cmdLog[q]) :
      cmdLog[p][i].vmid # cmdLog[q][j].vmid

\* a body the schema refuses, or whose OS key names no template
BodyInvalid(body) ==
  \/ SchemaErrors(body) # {}
  \/ toLowerCase(body.os) \notin DOMAIN config.templates

C17_LifecycleUpdatesStatus ==
  \A p \in Callers :
    /\ pc[p] = "life_done"
         => /\ Len(statusLog[p]) = 1
            /\ statusLog[p][1].vmid = Val(lifeOp[p]).vmid
            /\ statusLog[p][1].st # "pending"
    /\ pc[p] = "life_failed" => statusLog[p] = <<>>

\* provisionVM has been called and has neither returned nor thrown
RunPcs == AllocPcs \cup {"returned", "thrown"} \cup PipelinePcs

\* C18: when every external operation completes or fails, a started
\* provisionVM run ends, with a result whose status is running or with an
\* error; and getNextVMId never examines more than maxAttempts candidates.
C18_RunsTerminate ==
  /\ \A p \in Callers :
       (pc[p] \in RunPcs)
         ~> (/\ Finished(p)
             /\ \/ (provResult[p] # Null
                     /\ Val(provResult[p]).status = "running")
                \/ err[p] # Null)
  /\ [](\A p \in Callers :
          /\ attempts[p] <= maxAttempts
          /\ pc[p] = "probe" => attempts[p] < maxAttempts)

\* a run that ended after maxAttempts examinations
C18_Witness ==
  \E p \in Callers :
    /\ pc[p] = "failed"
    /\ attempts[p] = maxAttempts
    /\ err[p] = Some([kind |-> "AllocationExhausted"])

\* the commands every run issues
MandatoryOps == {op \in {PipelineOrder[i] : i \in 1..Len(PipelineOrder)} :
                   op \notin OptionalOps}

\* the command op of run p, when p issued it
CommandOf(p, op) ==
  cmdLog[p][CHOOSE i \in 1..Len(cmdLog[p]) : cmdLog[p][i].op = op]

\* C19: when provisionVM has returned a result, its status is running, every
\* command of the clone, configure, cloud-init and start steps has completed
\* successfully against the result's vmid, which is the allocated
\* identifier, and the name, cores, memory, user, hostname and network the
\* result echoes are the ones the commands were given.
C19_ResultMatchesRun ==
  \A p \in Callers :
    provResult[p] # Null =>
      LET r == Val(provResult[p])
      IN /\ r.status = "running"
         /\ r.vmid = Val(result[p])
         /\ \A op \in MandatoryOps : Issued(p, op, r.vmid) = 1
         /\ \A i \in 1..Len(cmdLog[p]) :
              /\ cmdLog[p][i].st = "ok"
              /\ cmdLog[p][i].vmid = r.vmid
              /\ cmdLog[p][i].op \notin RollbackOps
         /\ CommandOf(p, "clone").args.name = r.config.name
         /\ CommandOf(p, "set_cores_memory").args.cores = r.config.cores
         /\ CommandOf(p, "set_cores_memory").args.memory = r.config.memory
         /\ CommandOf(p, "set_ciuser").args.ciuser = r.config.username
         /\ CommandOf(p, "set_name").args.hostname = r.config.hostname
         /\ LET net0 == CommandOf(p, "set_net0").args.net0
            IN /\ net0.bridge = r.config.network.bridge
               /\ net0.tag # Null => net0.tag = Some(r.config.network.vlan)
               /\ net0.rate # Null => net0.rate = Some(r.config.network.speed)

\* a result for a request whose name is changed by sanitizeVMName and whose
\* VLAN becomes a tag
C19_Witness ==
  \E p \in Callers :
    /\ provResult[p] # Null
    /\ Val(provResult[p]).config.name # Val(opts[p]).name
    /\ CommandOf(p, "set_net0").args.net0.tag = Some(100)
    /\ CommandOf(p, "set_cores_memory").args.cores = 4
    /\ Issued(p, "set_sshkeys", VmidOf(p)) = 1

\* C20: every identifier getNextVMId returns is a positive integer, whatever
\* the counter file held when it was loaded.
C20_ReturnedIdPositive ==
  \A p \in Callers : result[p] # Null => Val(result[p]) > 0


(***************************************************************************)
(* Properties of the scan and of the cache refresh.                        *)
(***************************************************************************)
\* the current call of p has accepted a candidate (lines 32-34)
Accepted(p) == pc[p] = "save" /\ saveFrom[p] = "accept"

AcceptedId(p) == candidateId[p]

\* the positions of callLog[p] holding an entry of kind ev
Entries(p, ev) == {i \in 1..Len(callLog[p]) : callLog[p][i].ev = ev}

\* C23: an identifier accepted by getNextVMId was probed by quickIdCheck in
\* the same call and the probe answered that it does not exist; every probe
\* of the call before that one answered that its candidate exists.
C23_AcceptedAfterOwnProbe ==
  \A p \in Callers :
    Accepted(p) =>
      \E i \in Entries(p, "probe") :
        /\ callLog[p][i] = Probe(AcceptedId(p), FALSE)
        /\ \A j \in Entries(p, "probe") : j < i => callLog[p][j].exists

C23_Witness ==
  \E p \in Callers :
    /\ result[p] # Null
    /\ scanCache[p] # {}
    /\ probedTrue[p] # {}
    /\ Val(result[p]) > Val(startId[p]) + 1


\* quickIdCheck of p has just answered that its candidate exists
ProbedExisting(p) ==
  /\ pc[p] = "probe"
  /\ Len(callLog'[p]) = Len(callLog[p]) + 1
  /\ callLog'[p][Len(callLog'[p])] = Probe(candidateId[p], TRUE)

\* the scan of p has just gone from candidate `from` to its next await or to
\* the throw: what it passed is in the cache, what it stops at is not
Advanced(p, from) ==
  /\ \A j \in from..(candidateId'[p] - 1) : j \in Val(vmCache')
  /\ attempts'[p] = candidateId'[p] - Val(startId'[p])
  /\ pc'[p] = "probe" => /\ candidateId'[p] \notin Val(vmCache')
                         /\ attempts'[p] < maxAttempts
  /\ pc'[p] = "thrown" => attempts'[p] = maxAttempts

\* the scan of p has just started (line 25)
ScanStarted(p) == startId[p] = Null /\ startId'[p] # Null

\* C24: the scan passes a cached candidate without probing it; a candidate
\* whose probe answers that it exists is put into the cache and passed; and
\* every candidate passed, cached or probed, adds one to attempts.
C24_SkipsCostOneAttempt ==
  [][\A p \in Callers :
       /\ ScanStarted(p) => Advanced(p, Val(startId'[p]))
       /\ ProbedExisting(p) =>
            /\ candidateId[p] \in Val(vmCache')
            /\ candidateId'[p] > candidateId[p]
            /\ Advanced(p, candidateId[p])]_vars

C24_Witness ==
  \E p \in Callers :
    /\ pc[p] = "probe"
    /\ attempts[p] >= 2
    /\ probedTrue[p] # {}
    /\ \E j \in scanCache[p] : Val(startId[p]) <= j /\ j < candidateId[p]


\* the discoveries that succeeded in the current call of p
Successes(p) == {i \in Entries(p, "tier") : callLog[p][i].ok}

\* C25: the cache lifetimes assigned by the three tiers are pairwise
\* different and decrease from the cluster-wide query to the local
\* enumeration to the filesystem enumeration.
C25_TierLifetimesDecrease ==
  \A p, q \in Callers :
    \A i \in Successes(p) :
      \A j \in Successes(q) :
        callLog[p][i].n < callLog[q][j].n
          => Val(callLog[p][i].lifetime) > Val(callLog[q][j].lifetime)


IsTier(e) == e.ev = "tier"

\* the discoveries of the current call of p, in the order they completed
Tiers(p) == SelectSeq(callLog[p], IsTier)

\* the discovery p awaits, 0 when it awaits none
AwaitedTier(p) ==
  CASE pc[p] = "tier1" -> 1
    [] pc[p] = "tier2" -> 2
    [] pc[p] = "tier3" -> 3
    [] OTHER -> 0

\* the identifiers the loop over the output of tier n adds (lines 68-72,
\* 85-91, 106-113)
TierIds(n) == IF n = 1 THEN ClusterQueryIds ELSE LocalListIds

\* the discovery of tier n awaited by p has just succeeded
TierSucceeded(p, n) ==
  /\ AwaitedTier(p) = n
  /\ Len(callLog'[p]) = Len(callLog[p]) + 1
  /\ callLog'[p][Len(callLog'[p])].ok

\* the discovery of tier 3 awaited by p has just failed
AllTiersFailed(p) ==
  /\ AwaitedTier(p) = 3
  /\ Len(callLog'[p]) = Len(callLog[p]) + 1
  /\ ~callLog'[p][Len(callLog'[p])].ok

\* the discoveries of p so far are 1, 2, ... in this order, all but the last
\* have failed, and the one p awaits is the next after failures only
TiersInOrder(p) ==
  /\ \A i \in 1..Len(Tiers(p)) :
       /\ Tiers(p)[i].n = i
       /\ i < Len(Tiers(p)) => ~Tiers(p)[i].ok
  /\ AwaitedTier(p) # 0 =>
       /\ Len(Tiers(p)) = AwaitedTier(p) - 1
       /\ \A i \in 1..Len(Tiers(p)) : ~Tiers(p)[i].ok

\* C26: a refresh runs the discoveries in the order 1, 2, 3, each one only
\* after the one before has failed and none after one has succeeded; and
\* when a discovery succeeds the cache holds exactly the identifiers that
\* discovery reported.
C26_FirstSuccessWins ==
  [][\A p \in Callers :
       /\ TiersInOrder(p)'
       /\ \A n \in 1..3 :
            TierSucceeded(p, n) => vmCache' = Some(TierIds(n))]_vars

\* C27: when the third discovery fails too, the cache is left empty, the
\* expiry is set 5 seconds after the start of the refresh, and the call goes
\* on to probe the counter value as its first candidate.
C27_AllTiersFailedScanGoesOn ==
  [][\A p \in Callers :
       AllTiersFailed(p) =>
         /\ vmCache' = Some({})
         /\ cacheExpiry' = now[p] + 5000
         /\ pc'[p] = "probe"
         /\ candidateId'[p] = Val(nextId)
         /\ attempts'[p] = 0]_vars


\* p is past getNextVMId in provisionVM, or inside a lifecycle operation
PastAllocation(p) ==
  pc[p] \in {"returned", "thrown"} \cup PipelinePcs \cup LifePcs

\* C28: no step of provisionVM after getNextVMId has returned or thrown
\* (resolution, clone, configuration, cloud-init, start, status update,
\* rollback) and no step of a lifecycle operation, its call included,
\* changes nextId, the counter file, vmCache or cacheExpiry.
C28_OnlyAllocatorMutatesCounterAndCache ==
  [][\A p \in Callers :
       (pc'[p] # pc[p] /\ (PastAllocation(p) \/ pc'[p] \in LifePcs))
         => /\ nextId' = nextId
            /\ vmIdFile' = vmIdFile
            /\ vmCache' = vmCache
            /\ cacheExpiry' = cacheExpiry]_vars

C28_Witness ==
  \E p \in Callers :
    /\ pc[p] = "life_done"
    /\ Val(lifeOp[p]).op = "delete"
    /\ "CommandError" \in rejections
    /\ nextId = Some(SEED_ID + 3)
    /\ vmIdFile = Some(toString(SEED_ID + 3))
    /\ vmCache # Null
    /\ cacheExpiry = CACHE_TTL


\* the current call of p has probed a candidate or awaits its first probe
Probing(p) == pc[p] = "probe" \/ Entries(p, "probe") # {}

\* C29: the call that initialises the counter finds no counter file, seeds
\* the counter with 1001 and has it written to the file before its first
\* probe; or it finds a counter file, and its scan starts from the value
\* loaded from that file.
C29_SeedPersistedBeforeProbe ==
  \A p \in Callers :
    \A r \in Entries(p, "read") :
      IF callLog[p][r].file = Null
      THEN /\ startId[p] # Null => Val(startId[p]) = SEED_ID
           /\ Probing(p) =>
                \E w \in Entries(p, "write") :
                  /\ callLog[p][w].ok
                  /\ \A i \in Entries(p, "probe") : w < i
           /\ Probing(p) => vmIdFile # Null
      ELSE startId[p] # Null =>
             Val(startId[p]) = LoadCounter(Val(callLog[p][r].file))


\* configureVM, line 133: the disk size the cloned template comes with
BuiltInDiskSize == "20G"

\* run p has got past `qm set --net0` of configureVM
NetConfigured(p) ==
  \E i \in 1..Len(cmdLog[p]) :
    cmdLog[p][i].op = "set_net0" /\ cmdLog[p][i].st = "ok"

\* C30: a run issues `qm resize` only in configureVM, after the network is
\* set, with the resolved disk size; and a run that got that far has issued
\* it if and only if the resolved disk size differs from the 20G the
\* template comes with.
C30_ResizeIffDiskDiffers ==
  \A p \in Callers :
    /\ \A i \in 1..Len(cmdLog[p]) :
         cmdLog[p][i].op = "resize" =>
           /\ i > 1
           /\ cmdLog[p][i - 1].op = "set_net0"
           /\ cmdLog[p][i].args.scsi0 = finalConfig(Val(opts[p])).diskSize
    /\ NetConfigured(p) =>
         (Issued(p, "resize", VmidOf(p)) = 1
            <=> finalConfig(Val(opts[p])).diskSize # BuiltInDiskSize)
    /\ Issued(p, "resize", VmidOf(p)) <= 1

C30_Witness ==
  \E p \in Callers :
    /\ pc[p] = "done"
    /\ Val(opts[p]).diskSize = Null
    /\ config.defaults.disk_size = "10G"
    /\ \E i \in 1..Len(cmdLog[p]) :
         /\ cmdLog[p][i].op = "resize"
         /\ cmdLog[p][i].args.scsi0 = "10G"
         /\ cmdLog[p][i].st = "ok"

(***************************************************************************)
(* Properties of the authentication of the routes                          *)
(***************************************************************************)
\* the request of p has passed the preHandler hook or has been answered
Answered(p) == pc[p] \in {"handler", "replied"} /\ request[p] # Null

\* the request of p is for a route other than the health check
Protected(p) == Path(Val(request[p]).http.url) # HealthcheckUrl

\* the request of p carries no token
NoToken(p) == ~Truthy(TokenOf(Val(request[p]).http))

\* the request of p has been answered with this status code
RepliedWith(p, code) ==
  pc[p] = "replied" /\ reply[p] # Null /\ Val(reply[p]).code = code

\* the tokens the environment of the request of p configures
Configured(p) ==
  {ConfiguredTokens(Val(request[p]).env)[i] :
     i \in 1..Len(ConfiguredTokens(Val(request[p]).env))}

\* C21 as stated: a request to a protected route without a token is
\* answered 401, and one whose token is not among the configured tokens is
\* answered 403.
C21_NoToken401NotConfigured403 ==
  \A p \in Callers :
    Answered(p) /\ Protected(p) =>
      /\ NoToken(p) => RepliedWith(p, 401)
      /\ ~NoToken(p) /\ Val(TokenOf(Val(request[p]).http)) \notin Configured(p)
           => RepliedWith(p, 403)

\* C21, amended: a request to a protected route without a token is answered
\* 401. One with a token is answered 500 when no token is configured in
\* production, and otherwise 403 when its token is not among the valid
\* tokens: the configured ones, or the development token when none is
\* configured outside production. A valid token reaches the handler.
C21_NoToken401InvalidToken403 ==
  \A p \in Callers :
    Answered(p) /\ Protected(p) =>
      LET env == Val(request[p]).env
          valid == IF Configured(p) # {} THEN Configured(p) ELSE {DevToken}
          unconfigured == Configured(p) = {} /\ env.NODE_ENV = "production"
      IN /\ NoToken(p) => RepliedWith(p, 401)
         /\ ~NoToken(p) /\ unconfigured => RepliedWith(p, 500)
         /\ ~NoToken(p) /\ ~unconfigured
              /\ Val(TokenOf(Val(request[p]).http)) \notin valid
              => RepliedWith(p, 403)
         /\ ~NoToken(p) /\ ~unconfigured
              /\ Val(TokenOf(Val(request[p]).http)) \in valid
              => \/ pc[p] = "handler" /\ reply[p] = Null
                 \/ pc[p] = "replied" /\ "handler" \in DOMAIN Val(reply[p])

\* a token that is not among the configured ones has been answered 403
\* while other tokens are configured
C21_Witness ==
  \E p \in Callers :
    /\ Answered(p) /\ Protected(p) /\ ~NoToken(p)
    /\ Configured(p) # {}
    /\ Val(TokenOf(Val(request[p]).http)) \notin Configured(p)
    /\ RepliedWith(p, 403)

\* C22: GET /healthcheck, with or without a query string, is never answered
\* 401 or 403 when it carries no token, and its handler answers it.
C22_HealthcheckNeedsNoToken ==
  \A p \in Callers :
    Answered(p) /\ ~Protected(p) /\ NoToken(p) =>
      /\ ~RepliedWith(p, 401)
      /\ ~RepliedWith(p, 403)
      /\ pc[p] = "replied" => "handler" \in DOMAIN Val(reply[p])

(***************************************************************************)
(* Properties of a run as a whole and of the allocator across calls.       *)
(***************************************************************************)
\* how many times run p handed op to runCommand
TimesIssued(p, op) ==
  Cardinality({i \in 1..Len(cmdLog[p]) : cmdLog[p][i].op = op})

\* run p is in its catch block (lines 76-88) or has thrown from it
RollingBack(p) == pc[p] \in RollbackOps \/ (pc[p] = "failed" /\ caught[p] # Null)

\* C31: within one run each command of the pipeline and of the rollback is
\* issued at most once; after a command of the pipeline has failed only
\* rollback commands follow; a run that rolls back goes from stop to destroy
\* to its rejection and never back into the pipeline.
C31_NoOperationRetried ==
  [][\A p \in Callers :
       /\ \A op \in {PipelineOrder[i] : i \in 1..Len(PipelineOrder)}
                      \cup RollbackOps : TimesIssued(p, op)' <= 1
       /\ \A i \in PipelineFailedAt(p)' : \A j \in (i + 1)..Len(cmdLog'[p]) :
            cmdLog'[p][j].op \in RollbackOps
       /\ (RollingBack(p) /\ pc'[p] # pc[p]) =>
            \/ pc[p] = "stop" /\ pc'[p] \in {"destroy", "failed"}
            \/ pc[p] = "destroy" /\ pc'[p] = "failed"
            \/ pc[p] = "failed" /\ pc'[p] \notin PipelinePcs
       /\ (pc'[p] = "failed" /\ caught'[p] # Null) => err'[p] = caught'[p]]_vars

\* a run whose start failed has rolled back and thrown the start error
C31_Witness ==
  \E p \in Callers :
    /\ pc[p] = "failed"
    /\ err[p] = Some(CommandError("start"))
    /\ TimesIssued(p, "start") = 1
    /\ TimesIssued(p, "stop") = 1
    /\ TimesIssued(p, "destroy") = 1

\* the VLAN of run p by the precedence request, template, defaults
ResolvedVlan(p) ==
  LET o == Val(opts[p])
  IN IF RequestVlan(o) # Null THEN Val(RequestVlan(o))
     ELSE IF TemplateVlan(o) # Null THEN Val(TemplateVlan(o))
     ELSE config.defaults.network.vlan

\* the --net0 values run p has handed to runCommand
Net0Issued(p) ==
  {cmdLog[p][i].args.net0 :
     i \in {j \in 1..Len(cmdLog[p]) : cmdLog[p][j].op = "set_net0"}}

\* C32: the --net0 value issued by configureVM carries tag=<vlan> if and only
\* if the resolved VLAN is neither 0 nor 1, and then the tag is the resolved
\* VLAN; a resolved VLAN of 1 gives a value without a tag.
C32_TagIffVlanNotZeroNorOne ==
  \A p \in Callers : \A net0 \in Net0Issued(p) :
    /\ net0.tag # Null <=> (ResolvedVlan(p) # 0 /\ ResolvedVlan(p) # 1)
    /\ net0.tag # Null => net0.tag = Some(ResolvedVlan(p))
    /\ ResolvedVlan(p) = 1 => net0.tag = Null

\* a run on a template that names VLAN 1 has configured net0 without a tag
C32_Witness ==
  \E p \in Callers :
    /\ NetConfigured(p)
    /\ RequestVlan(Val(opts[p])) = Null
    /\ TemplateVlan(Val(opts[p])) = Some(1)
    /\ ResolvedVlan(p) = 1
    /\ \E net0 \in Net0Issued(p) : net0.tag = Null

\* the rollback commands of run p that found a VM and acted on it
RollbackActed(p) ==
  {i \in 1..Len(cmdLog[p]) :
     cmdLog[p][i].op \in RollbackOps /\ cmdLog[p][i].st = "ok"}

\* C33: a stop or destroy of the rollback acts only on the VM that the clone
\* of the same run created: when the clone has failed, for instance because
\* a VM with the allocated identifier came into existence after the probe,
\* no rollback command of the run stops or destroys a VM.
C33_RollbackSparesForeignVM ==
  \A p \in Callers : \A i \in RollbackActed(p) :
    \E j \in 1..(i - 1) : cmdLog[p][j].op = "clone" /\ cmdLog[p][j].st = "ok"

\* quickIdCheck of p has just answered that the candidate is free, and
\* getNextVMId has taken it (lines 31-33)
Accepts(p) == pc[p] = "probe" /\ pc'[p] = "save"

\* getNextVMId of p has just returned (line 34)
Returns(p) == result[p] = Null /\ result'[p] # Null

\* C34: with calls that do not overlap, in one process, an identifier taken
\* by getNextVMId is at least the largest value the counter has had, and the
\* counter is larger than every identifier returned; so each returned
\* identifier is larger than all identifiers returned before it, whatever
\* became of the runs and of the VMs in between.
C34_ReturnedIdsIncrease ==
  [][/\ \A p \in Callers :
          /\ Accepts(p) =>
               /\ highWater # Null
               /\ candidateId[p] >= Val(highWater)
               /\ nextId' = Some(candidateId[p] + 1)
          /\ Returns(p) =>
               /\ result'[p] = Some(candidateId[p])
               /\ Val(highWater') > candidateId[p]
     /\ (nextId # Null /\ \A p \in Callers : ~Accepts(p)) => nextId' = nextId
    ]_vars

\* an identifier returned after an earlier run has rolled back
C34_Witness ==
  \E p \in Callers :
    /\ pc[p] = "returned"
    /\ rejections = {"CommandError"}
    /\ Val(result[p]) > SEED_ID
    /\ SEED_ID \notin localVMs

\* the call of p has failed with "Could not find available VM ID" (line 44)
Exhausted(p) == pc[p] = "thrown"

\* the identifiers the call of p probed, all of them found in use
ProbedInUse(p) ==
  /\ \A i \in Entries(p, "probe") : callLog[p][i].exists
  /\ probedTrue[p] = {callLog[p][i].vmid : i \in Entries(p, "probe")}

\* C35 as stated: a call that fails with AllocationExhausted has changed
\* neither the counter in memory nor the counter file (it has not
\* initialised the counter and has written no file), and its only change is
\* that the identifiers it probed as existing were added to the cache (it
\* has not refreshed the cache).
C35_ExhaustedCallOnlyAddsToCache ==
  \A p \in Callers :
    Exhausted(p) =>
      /\ nextId = startId[p]
      /\ Entries(p, "read") = {}
      /\ Entries(p, "write") = {}
      /\ Entries(p, "tier") = {}
      /\ ProbedInUse(p)
      /\ vmCache = Some(scanCache[p] \cup probedTrue[p])

\* C35, amended: a call that fails with AllocationExhausted leaves the
\* counter in memory and the counter file as its initialisation left them:
\* the counter is the one its scan started from, a file is written only by
\* an initialisation that could not read the file, before the refresh and
\* the scan, and holds the seed when it was written, else what was read.
\* After its refresh of the cache the only change is that the identifiers
\* it probed as existing were added to the cache.
C35_ExhaustedCallKeepsCounter ==
  \A p \in Callers :
    Exhausted(p) =>
      /\ nextId = startId[p]
      /\ \A w \in Entries(p, "write") :
           /\ \E r \in Entries(p, "read") : r < w /\ ~callLog[p][r].ok
           /\ \A i \in Entries(p, "tier") \cup Entries(p, "probe") : w < i
           /\ callLog[p][w].ok => vmIdFile = Some(toString(SEED_ID))
           /\ ~callLog[p][w].ok =>
                \E r \in Entries(p, "read") : vmIdFile = callLog[p][r].file
      /\ \A r \in Entries(p, "read") :
           callLog[p][r].ok =>
             /\ Entries(p, "write") = {}
             /\ vmIdFile = callLog[p][r].file
             /\ nextId = Some(LoadCounter(Val(callLog[p][r].file)))
      /\ \A t \in Entries(p, "tier") : \A i \in Entries(p, "probe") : t < i
      /\ ProbedInUse(p)
      /\ vmCache = Some(scanCache[p] \cup probedTrue[p])

\* the first call of a process has seeded the counter, written the file,
\* refreshed the cache, probed a candidate as existing and then failed
C35_Witness ==
  \E p \in Callers :
    /\ Exhausted(p)
    /\ \E w \in Entries(p, "write") : callLog[p][w].ok
    /\ Successes(p) # {}
    /\ probedTrue[p] # {}
    /\ nextId = Some(SEED_ID)
    /\ vmIdFile = Some(toString(SEED_ID))

\* C36: whenever no getNextVMId call is in flight, and no write of the
\* counter file has failed, the file holds the counter in memory, also after
\* calls that overlapped and whose writes completed in any order.
C36_QuiescentFileEqualsCounter ==
  (Quiescent /\ ~ioFaults /\ nextId # Null)
    => vmIdFile = Some(toString(Val(nextId)))

\* the call of p is in its scan, awaiting the probe of a candidate
Scanning(p) == pc[p] = "probe"

\* C37: while a call scans, the cache it consults still holds every
\* identifier it held when the scan started, after the call's own refresh:
\* no refresh of an overlapping call empties or replaces it.
C37_ScanCacheNotReplaced ==
  \A p \in Callers :
    (Scanning(p) /\ Successes(p) # {}) =>
      /\ vmCache # Null
      /\ scanCache[p] \subseteq Val(vmCache)

\* run p has failed, or is rolling back after a failure
RunFailed(p) == caught[p] # Null \/ err[p] # Null

\* `qm start` of run p has succeeded
Started(p) ==
  \E i \in 1..Len(cmdLog[p]) :
    cmdLog[p][i].op = "start" /\ cmdLog[p][i].st = "ok"

\* C38: a run that fails writes nothing to the record store. The only status
\* a run writes is "running" for its own vmid, once, after its `qm start`
\* has succeeded; a run that failed or rolls back has written no status and
\* has no result; and the set of VM records changes only when the route
\* saves the record of a run that returned a result.
C38_FailedRunWritesNoRecord ==
  [][/\ \A p \in Callers :
          /\ RunFailed(p)' => (statusLog'[p] = <<>> /\ provResult'[p] = Null)
          /\ statusLog'[p] # <<>> =>
               /\ Started(p)'
               /\ Len(statusLog'[p]) = 1
               /\ statusLog'[p][1].status = "running"
               /\ statusLog'[p][1].vmid = VmidOf(p)'
     /\ records' # records =>
          \E p \in Callers :
            /\ pc[p] = "save_record"
            /\ provResult[p] # Null
            /\ ~RunFailed(p)
            /\ records' = records \cup {VMRecord(Val(request[p]),
                                                 Val(provResult[p]))}
    ]_vars

\* a request whose run failed at `qm start` was answered 500 after an
\* earlier request had its record saved
C38_Witness ==
  \E p \in Callers :
    /\ pc[p] = "replied"
    /\ Val(reply[p]).code = 500
    /\ err[p] = Some(CommandError("start"))
    /\ statusLog[p] = <<>>
    /\ Cardinality(records) = 1

====
